---- MODULE Spec2Model ----
(***************************************************************************)
(* A model of wlx_monitors: the WlMonitorManager engine of src/state.rs    *)
(* (its mirror of the compositor's heads and modes, its run loop, the      *)
(* configuration transactions it builds from actions) and the data model   *)
(* of src/wl_monitor.rs.                                                   *)
(*                                                                         *)
(* Object identifiers (ObjectId) are positive integers handed out in       *)
(* order and never reused; Option::None is 0.  An f64 is an integer, or    *)
(* one of three values standing for NaN and the two infinities.            *)
(***************************************************************************)
EXTENDS Integers, Sequences, FiniteSets, Bags, TLC

\* ------------------------------------------------------------------------
\* Bounds of the model
\* ------------------------------------------------------------------------

\* heads the compositor announces in one session
MaxHeads == 2
\* modes the compositor announces in one session (over all heads)
MaxModes == 2
\* protocol events the compositor sends in one session
MaxEvents == 6
\* actions the host sends in one session
MaxActions == 1
\* heads and modes per head of the monitor tables transactions are built from
BuildHeads == 2
BuildModes == 2

\* ------------------------------------------------------------------------
\* Values
\* ------------------------------------------------------------------------

None == 0

NaN == 9001
PosInf == 9002
NegInf == 9003

\* f64::is_finite
is_finite(s) == s \notin {NaN, PosInf, NegInf}

\* s < 0.0 in place of s <= 0.0
F64LeZero_Strict(s) == (s = NegInf) \/ (is_finite(s) /\ s < 0)

\* the f64 comparison s <= 0.0 (false for NaN)
F64LeZero(s) == (s = NegInf) \/ (is_finite(s) /\ s <= 0)

\* i32 division, truncating toward zero
I32Div(a, b) == IF a >= 0 THEN a \div b ELSE -((-a) \div b)

\* the names heads are given, and one no head has
Names == {"DP-1", "HDMI-A-1"}
NoSuchName == "eDP-9"

WlTransform ==
  {"Normal", "Rotate90", "Rotate180", "Rotate270",
   "Flipped", "Flipped90", "Flipped180", "Flipped270"}

\* The wire values of wl_output::Transform
to_wayland(t) ==
  CASE t = "Normal" -> 0
    [] t = "Rotate90" -> 1
    [] t = "Rotate180" -> 2
    [] t = "Rotate270" -> 3
    [] t = "Flipped" -> 4
    [] t = "Flipped90" -> 5
    [] t = "Flipped180" -> 6
    [] t = "Flipped270" -> 7

\* from_wayland with the arms of Flipped90 and Flipped270 exchanged
from_wayland_Swapped(w) ==
  CASE w = 0 -> "Normal"
    [] w = 1 -> "Rotate90"
    [] w = 2 -> "Rotate180"
    [] w = 3 -> "Rotate270"
    [] w = 4 -> "Flipped"
    [] w = 5 -> "Flipped270"
    [] w = 6 -> "Flipped180"
    [] w = 7 -> "Flipped90"
    [] OTHER -> "Normal"

\* from a WEnum<Transform>: WEnum::Value for 0..7, WEnum::Unknown otherwise
from_wayland(w) ==
  CASE w = 0 -> "Normal"
    [] w = 1 -> "Rotate90"
    [] w = 2 -> "Rotate180"
    [] w = 3 -> "Rotate270"
    [] w = 4 -> "Flipped"
    [] w = 5 -> "Flipped90"
    [] w = 6 -> "Flipped180"
    [] w = 7 -> "Flipped270"
    [] OTHER -> "Normal"

WlResolutionDefault == [height |-> 0, width |-> 0]
WlPositionDefault == [x |-> 0, y |-> 0]

\* The WlMonitorMode pushed when a head announces a mode
NewMode(mode_id, head_id) ==
  [mode_id |-> mode_id, head_id |-> head_id, refresh_rate |-> 0,
   resolution |-> WlResolutionDefault, preferred |-> FALSE,
   is_current |-> FALSE]

\* The WlMonitor inserted when the manager announces a head
NewMonitor(head_id) ==
  [head_id |-> head_id, name |-> "", description |-> "", make |-> "",
   model |-> "", serial_number |-> "", modes |-> << >>,
   resolution |-> WlResolutionDefault, position |-> WlPositionDefault,
   scale |-> 1, enabled |-> FALSE, current_mode |-> None,
   transform |-> "Normal", changed |-> FALSE, last_mode |-> None]

\* WlMonitorEvent
InitialState(ms) == [type |-> "InitialState", monitors |-> ms]
Changed(m) == [type |-> "Changed", monitor |-> m]
Removed(id, name) == [type |-> "Removed", id |-> id, name |-> name]
ActionFailed(kind, text, name, args) ==
  [type |-> "ActionFailed", action |-> kind,
   reason |-> [text |-> text, name |-> name, args |-> args]]

\* WlMonitorAction: one record shape for the four variants
NoMode == [some |-> FALSE, width |-> 0, height |-> 0, refresh_rate |-> 0]
SomeMode(w, h, r) == [some |-> TRUE, width |-> w, height |-> h, refresh_rate |-> r]
Toggle(name, mode) ==
  [kind |-> "Toggle", name |-> name, mode |-> mode, scale |-> 0,
   transform |-> "Normal"]
SwitchMode(name, w, h, r) ==
  [kind |-> "SwitchMode", name |-> name, mode |-> SomeMode(w, h, r),
   scale |-> 0, transform |-> "Normal"]
SetScale(name, scale) ==
  [kind |-> "SetScale", name |-> name, mode |-> NoMode, scale |-> scale,
   transform |-> "Normal"]
SetTransform(name, transform) ==
  [kind |-> "SetTransform", name |-> name, mode |-> NoMode, scale |-> 0,
   transform |-> transform]

\* ------------------------------------------------------------------------
\* Configuration requests
\* ------------------------------------------------------------------------

\* config.enable_head(head) followed by set_mode (when mode is not None),
\* set_position, set_transform and set_scale on the configuration head
EnableHead(head, mode, position, transform, scale) ==
  [req |-> "enable", head |-> head, mode |-> mode, x |-> position.x,
   y |-> position.y, transform |-> to_wayland(transform), scale |-> scale]

\* config.disable_head(head)
DisableHead(head) ==
  [req |-> "disable", head |-> head, mode |-> None, x |-> 0, y |-> 0,
   transform |-> 0, scale |-> 0]

\* preserve_head without the test of monitor.enabled
preserve_head_Enable(monitor) ==
  EnableHead(monitor.head_id, monitor.current_mode, monitor.position,
             monitor.transform, monitor.scale)

\* self.preserve_head(config, monitor, qh)
preserve_head(monitor) ==
  IF monitor.enabled
    THEN EnableHead(monitor.head_id, monitor.current_mode, monitor.position,
                    monitor.transform, monitor.scale)
    ELSE DisableHead(monitor.head_id)

\* The requests of a loop over the monitor table: per[h] is what the loop
\* body sends for head h (a bag of requests).  HashMap iteration order is
\* unspecified, so the requests are kept as a bag.
RECURSIVE LoopRequests(_, _)
LoopRequests(S, per) ==
  IF S = {} THEN EmptyBag
  ELSE LET h == CHOOSE x \in S : TRUE
       IN per[h] (+) LoopRequests(S \ {h}, per)

One(r) == SetToBag({r})

\* n copies of event e, in a sequence
Copies(n, e) == [i \in 1..n |-> e]

\* modes.iter().find(|m| size and refresh match): the index, or 0
FindModeByTriple(modes, w, h, r) ==
  LET hits == {i \in 1..Len(modes) :
                 /\ modes[i].resolution.width = w
                 /\ modes[i].resolution.height = h
                 /\ modes[i].refresh_rate = r}
  IN IF hits = {} THEN 0 ELSE CHOOSE i \in hits : \A j \in hits : i <= j

\* modes.iter().find(|m| m.mode_id == id): the index, or 0
FindModeById(modes, id) ==
  LET hits == {i \in 1..Len(modes) : modes[i].mode_id = id}
  IN IF hits = {} THEN 0 ELSE CHOOSE i \in hits : \A j \in hits : i <= j

\* the last preferred mode in place of the first
FindPreferred_Last(modes) ==
  LET hits == {i \in 1..Len(modes) : modes[i].preferred}
  IN IF hits = {} THEN 0 ELSE CHOOSE i \in hits : \A j \in hits : i >= j

\* modes.iter().find(|m| m.preferred): the index, or 0
FindPreferred(modes) ==
  LET hits == {i \in 1..Len(modes) : modes[i].preferred}
  IN IF hits = {} THEN 0 ELSE CHOOSE i \in hits : \A j \in hits : i <= j

\* modes.first(): the index, or 0
FirstMode(modes) == IF Len(modes) = 0 THEN 0 ELSE 1

\* a.or_else(|| b) on indices
OrElse(a, b) == IF a # 0 THEN a ELSE b

\* the heads of the table named name
Named(ms, name) == {h \in DOMAIN ms : ms[h].name = name}

\* ------------------------------------------------------------------------
\* Building a configuration from an action
\*
\* Each configure_* operator gives [monitors, reqs, events]: the monitor
\* table after the call, the bag of requests sent on the configuration and
\* the events sent on the emitter, in order.
\* ------------------------------------------------------------------------

EmptyTable == [h \in {} |-> NewMonitor(h)]

\* What self.monitors.values().find(|m| m.name == name) may return: any head
\* of that name (the first in the HashMap's iteration order), or None
FindNamed(ms, name) == IF Named(ms, name) = {} THEN {None} ELSE Named(ms, name)

\* ResolveToggleMode without the last_mode branch
ResolveToggleMode_NoLast(monitor, mode) ==
  LET asked ==
        IF mode.some
          THEN FindModeByTriple(monitor.modes, mode.width, mode.height,
                                mode.refresh_rate)
          ELSE 0
  IN OrElse(OrElse(asked, FindPreferred(monitor.modes)),
            FirstMode(monitor.modes))

\* resolved_mode of configure_toggle: an index into monitor.modes, or 0
ResolveToggleMode(monitor, mode) ==
  LET asked ==
        IF mode.some
          THEN FindModeByTriple(monitor.modes, mode.width, mode.height,
                                mode.refresh_rate)
          ELSE IF monitor.last_mode # None
            THEN FindModeById(monitor.modes, monitor.last_mode)
            ELSE 0
  IN OrElse(OrElse(asked, FindPreferred(monitor.modes)),
            FirstMode(monitor.modes))

\* configure_toggle with a preserve_head in the branch that resolves no mode
configure_toggle_Preserve(ms, name, mode, found) ==
  LET target_enabled == IF found = None THEN FALSE ELSE ms[found].enabled
      saved ==
        IF target_enabled /\ ms[found].current_mode # None
          THEN [ms EXCEPT ![found].last_mode = ms[found].current_mode]
          ELSE ms
      unresolved == {h \in Named(saved, name) :
                       ~target_enabled /\ ResolveToggleMode(saved[h], mode) = 0}
      per == [h \in DOMAIN saved |->
                LET monitor == saved[h]
                    i == ResolveToggleMode(monitor, mode)
                IN IF monitor.name # name THEN One(preserve_head(monitor))
                   ELSE IF target_enabled THEN One(DisableHead(monitor.head_id))
                   ELSE IF i # 0
                     THEN One(EnableHead(monitor.head_id,
                                         monitor.modes[i].mode_id,
                                         monitor.position, monitor.transform,
                                         monitor.scale))
                     ELSE One(preserve_head(monitor))]
  IN [monitors |-> saved,
      reqs |-> LoopRequests(DOMAIN saved, per),
      events |-> Copies(Cardinality(unresolved),
                        ActionFailed("Toggle",
                                     "No valid mode available for monitor",
                                     name, << >>))]

\* found is the head the two find() calls return (FindNamed)
configure_toggle(ms, name, mode, found) ==
  LET target_enabled == IF found = None THEN FALSE ELSE ms[found].enabled
      saved ==
        IF target_enabled /\ ms[found].current_mode # None
          THEN [ms EXCEPT ![found].last_mode = ms[found].current_mode]
          ELSE ms
      unresolved == {h \in Named(saved, name) :
                       ~target_enabled /\ ResolveToggleMode(saved[h], mode) = 0}
      per == [h \in DOMAIN saved |->
                LET monitor == saved[h]
                    i == ResolveToggleMode(monitor, mode)
                IN IF monitor.name # name THEN One(preserve_head(monitor))
                   ELSE IF target_enabled THEN One(DisableHead(monitor.head_id))
                   ELSE IF i # 0
                     THEN One(EnableHead(monitor.head_id,
                                         monitor.modes[i].mode_id,
                                         monitor.position, monitor.transform,
                                         monitor.scale))
                     ELSE EmptyBag]
  IN [monitors |-> saved,
      reqs |-> LoopRequests(DOMAIN saved, per),
      events |-> Copies(Cardinality(unresolved),
                        ActionFailed("Toggle",
                                     "No valid mode available for monitor",
                                     name, << >>))]

\* configure_switch_mode without the preserve_head of the branch that finds
\* no mode
configure_switch_mode_Drop(ms, name, width, height, refresh_rate) ==
  LET unmatched == {h \in Named(ms, name) :
                      FindModeByTriple(ms[h].modes, width, height,
                                       refresh_rate) = 0}
      per == [h \in DOMAIN ms |->
                LET monitor == ms[h]
                    i == FindModeByTriple(monitor.modes, width, height,
                                          refresh_rate)
                IN IF monitor.name # name THEN One(preserve_head(monitor))
                   ELSE IF i # 0
                     THEN One(EnableHead(monitor.head_id,
                                         monitor.modes[i].mode_id,
                                         monitor.position, monitor.transform,
                                         monitor.scale))
                     ELSE EmptyBag]
  IN [monitors |-> ms,
      reqs |-> LoopRequests(DOMAIN ms, per),
      events |-> Copies(Cardinality(unmatched),
                        ActionFailed("SwitchMode", "No matching mode for monitor",
                                     name, <<width, height, refresh_rate>>))]

configure_switch_mode(ms, name, width, height, refresh_rate) ==
  LET unmatched == {h \in Named(ms, name) :
                      FindModeByTriple(ms[h].modes, width, height,
                                       refresh_rate) = 0}
      per == [h \in DOMAIN ms |->
                LET monitor == ms[h]
                    i == FindModeByTriple(monitor.modes, width, height,
                                          refresh_rate)
                IN IF monitor.name # name THEN One(preserve_head(monitor))
                   ELSE IF i # 0
                     THEN One(EnableHead(monitor.head_id,
                                         monitor.modes[i].mode_id,
                                         monitor.position, monitor.transform,
                                         monitor.scale))
                     ELSE One(preserve_head(monitor))]
  IN [monitors |-> ms,
      reqs |-> LoopRequests(DOMAIN ms, per),
      events |-> Copies(Cardinality(unmatched),
                        ActionFailed("SwitchMode", "No matching mode for monitor",
                                     name, <<width, height, refresh_rate>>))]

\* configure_set_scale writing the new scale into the mirror as well
configure_set_scale_Early(ms, name, scale) ==
  IF ~is_finite(scale) \/ F64LeZero(scale)
    THEN [monitors |-> ms,
          reqs |-> LoopRequests(DOMAIN ms,
                                [h \in DOMAIN ms |-> One(preserve_head(ms[h]))]),
          events |-> <<ActionFailed("SetScale",
                                    "Invalid scale value: must be finite and > 0",
                                    "", <<scale>>)>>]
    ELSE
      LET disabled == {h \in Named(ms, name) : ~ms[h].enabled}
          per == [h \in DOMAIN ms |->
                    LET monitor == ms[h]
                    IN IF monitor.name # name THEN One(preserve_head(monitor))
                       ELSE IF ~monitor.enabled THEN One(preserve_head(monitor))
                       ELSE One(EnableHead(monitor.head_id, monitor.current_mode,
                                           monitor.position, monitor.transform,
                                           scale))]
      IN [monitors |-> [h \in DOMAIN ms |->
                          IF ms[h].name = name /\ ms[h].enabled
                            THEN [ms[h] EXCEPT !.scale = scale] ELSE ms[h]],
          reqs |-> LoopRequests(DOMAIN ms, per),
          events |-> Copies(Cardinality(disabled),
                            ActionFailed("SetScale",
                                         "Monitor is disabled, cannot set scale",
                                         name, << >>))]

configure_set_scale(ms, name, scale) ==
  IF ~is_finite(scale) \/ F64LeZero(scale)
    THEN [monitors |-> ms,
          reqs |-> LoopRequests(DOMAIN ms,
                                [h \in DOMAIN ms |-> One(preserve_head(ms[h]))]),
          events |-> <<ActionFailed("SetScale",
                                    "Invalid scale value: must be finite and > 0",
                                    "", <<scale>>)>>]
    ELSE
      LET disabled == {h \in Named(ms, name) : ~ms[h].enabled}
          per == [h \in DOMAIN ms |->
                    LET monitor == ms[h]
                    IN IF monitor.name # name THEN One(preserve_head(monitor))
                       ELSE IF ~monitor.enabled THEN One(preserve_head(monitor))
                       ELSE One(EnableHead(monitor.head_id, monitor.current_mode,
                                           monitor.position, monitor.transform,
                                           scale))]
      IN [monitors |-> ms,
          reqs |-> LoopRequests(DOMAIN ms, per),
          events |-> Copies(Cardinality(disabled),
                            ActionFailed("SetScale",
                                         "Monitor is disabled, cannot set scale",
                                         name, << >>))]

\* configure_set_transform without the test of monitor.enabled
configure_set_transform_Force(ms, name, transform) ==
  LET per == [h \in DOMAIN ms |->
                LET monitor == ms[h]
                IN IF monitor.name # name THEN One(preserve_head(monitor))
                   ELSE One(EnableHead(monitor.head_id, monitor.current_mode,
                                       monitor.position, transform,
                                       monitor.scale))]
  IN [monitors |-> ms,
      reqs |-> LoopRequests(DOMAIN ms, per),
      events |-> << >>]

configure_set_transform(ms, name, transform) ==
  LET disabled == {h \in Named(ms, name) : ~ms[h].enabled}
      per == [h \in DOMAIN ms |->
                LET monitor == ms[h]
                IN IF monitor.name # name THEN One(preserve_head(monitor))
                   ELSE IF ~monitor.enabled THEN One(preserve_head(monitor))
                   ELSE One(EnableHead(monitor.head_id, monitor.current_mode,
                                       monitor.position, transform,
                                       monitor.scale))]
  IN [monitors |-> ms,
      reqs |-> LoopRequests(DOMAIN ms, per),
      events |-> Copies(Cardinality(disabled),
                        ActionFailed("SetTransform",
                                     "Monitor is disabled, cannot set transform",
                                     name, << >>))]

\* handle_action reporting a name that no monitor has
Configure_Report(ms, action, found) ==
  LET r == CASE action.kind = "Toggle" ->
                  configure_toggle(ms, action.name, action.mode, found)
             [] action.kind = "SwitchMode" ->
                  configure_switch_mode(ms, action.name, action.mode.width,
                                        action.mode.height,
                                        action.mode.refresh_rate)
             [] action.kind = "SetScale" ->
                  configure_set_scale(ms, action.name, action.scale)
             [] action.kind = "SetTransform" ->
                  configure_set_transform(ms, action.name, action.transform)
  IN IF Named(ms, action.name) # {} THEN r
     ELSE [r EXCEPT !.events =
             Append(@, ActionFailed(action.kind, "No monitor named",
                                    action.name, << >>))]

\* the match of handle_action over the action's variant
Configure(ms, action, found) ==
  CASE action.kind = "Toggle" ->
         configure_toggle(ms, action.name, action.mode, found)
    [] action.kind = "SwitchMode" ->
         configure_switch_mode(ms, action.name, action.mode.width,
                               action.mode.height, action.mode.refresh_rate)
    [] action.kind = "SetScale" ->
         configure_set_scale(ms, action.name, action.scale)
    [] action.kind = "SetTransform" ->
         configure_set_transform(ms, action.name, action.transform)

\* ------------------------------------------------------------------------
\* Protocol event handlers (the Dispatch implementations)
\*
\* Each gives the fields of the manager it changes and the events it sends.
\* ------------------------------------------------------------------------

\* a head or mode field event off the wire
Ev(field, str, a, b) == [field |-> field, str |-> str, a |-> a, b |-> b]

\* the match of Dispatch<ZwlrOutputHeadV1>::event over a head's field events
ApplyHeadField(monitor, ev) ==
  CASE ev.field = "Name" -> [monitor EXCEPT !.name = ev.str]
    [] ev.field = "Description" -> [monitor EXCEPT !.description = ev.str]
    [] ev.field = "Make" -> [monitor EXCEPT !.make = ev.str]
    [] ev.field = "Model" -> [monitor EXCEPT !.model = ev.str]
    [] ev.field = "SerialNumber" -> [monitor EXCEPT !.serial_number = ev.str]
    [] ev.field = "Enabled" -> [monitor EXCEPT !.enabled = (ev.a # 0)]
    [] ev.field = "CurrentMode" ->
         [monitor EXCEPT
            !.current_mode = ev.a,
            !.modes = [i \in 1..Len(monitor.modes) |->
                         [monitor.modes[i] EXCEPT
                            !.is_current = (monitor.modes[i].mode_id = ev.a)]]]
    [] ev.field = "Position" ->
         [monitor EXCEPT !.position = [x |-> ev.a, y |-> ev.b]]
    [] ev.field = "Scale" -> [monitor EXCEPT !.scale = ev.a]
    [] ev.field = "Transform" ->
         [monitor EXCEPT !.transform = from_wayland(ev.a)]
    [] OTHER -> monitor

\* HeadFieldEvent, were the handler to send Changed itself instead of
\* marking the monitor dirty
HeadFieldEvent_Eager(ms, init, head_id, ev) ==
  IF head_id \notin DOMAIN ms
    THEN [monitors |-> ms, events |-> << >>]
    ELSE [monitors |-> [ms EXCEPT ![head_id] = ApplyHeadField(ms[head_id], ev)],
          events |-> IF init THEN <<Changed(ApplyHeadField(ms[head_id], ev))>>
                     ELSE << >>]

\* Dispatch<ZwlrOutputHeadV1>::event for a field event of head head_id
HeadFieldEvent(ms, init, head_id, ev) ==
  IF head_id \notin DOMAIN ms
    THEN [monitors |-> ms, events |-> << >>]
    ELSE [monitors |->
            [ms EXCEPT ![head_id] =
               [ApplyHeadField(ms[head_id], ev) EXCEPT
                  !.changed = IF init THEN TRUE ELSE @]],
          events |-> << >>]

\* Dispatch<ZwlrOutputHeadV1>::event for Mode { mode }
HeadModeEvent(ms, mm, head_id, mode_id) ==
  IF head_id \notin DOMAIN ms
    THEN [monitors |-> ms, mode_monitor |-> mm]
    ELSE [monitors |->
            [ms EXCEPT ![head_id].modes = Append(@, NewMode(mode_id, head_id))],
          mode_monitor |->
            [m \in DOMAIN mm \cup {mode_id} |->
               IF m = mode_id THEN head_id ELSE mm[m]]]

\* Finished with monitors.get in place of monitors.remove
HeadFinishedEvent_Keep(ms, mm, head_id) ==
  IF head_id \in DOMAIN ms
    THEN [monitors |-> ms,
          mode_monitor |->
            [m \in {x \in DOMAIN mm : mm[x] # head_id} |-> mm[m]],
          events |-> <<Removed(ms[head_id].head_id, ms[head_id].name)>>]
    ELSE [monitors |-> ms, mode_monitor |-> mm, events |-> << >>]

\* Finished without the mode_monitor.retain
HeadFinishedEvent_Orphan(ms, mm, head_id) ==
  IF head_id \in DOMAIN ms
    THEN [monitors |-> [h \in DOMAIN ms \ {head_id} |-> ms[h]],
          mode_monitor |-> mm,
          events |-> <<Removed(ms[head_id].head_id, ms[head_id].name)>>]
    ELSE [monitors |-> ms, mode_monitor |-> mm, events |-> << >>]

\* Dispatch<ZwlrOutputHeadV1>::event for Finished
HeadFinishedEvent(ms, mm, head_id) ==
  IF head_id \in DOMAIN ms
    THEN [monitors |-> [h \in DOMAIN ms \ {head_id} |-> ms[h]],
          mode_monitor |->
            [m \in {x \in DOMAIN mm : mm[x] # head_id} |-> mm[m]],
          events |-> <<Removed(ms[head_id].head_id, ms[head_id].name)>>]
    ELSE [monitors |-> ms, mode_monitor |-> mm, events |-> << >>]

\* the match of Dispatch<ZwlrOutputModeV1>::event over a mode's field events
ApplyModeField(mode, ev) ==
  CASE ev.field = "Size" ->
         [mode EXCEPT !.resolution = [height |-> ev.b, width |-> ev.a]]
    [] ev.field = "Refresh" -> [mode EXCEPT !.refresh_rate = I32Div(ev.a, 1000)]
    [] ev.field = "Preferred" -> [mode EXCEPT !.preferred = TRUE]
    [] OTHER -> mode

\* Dispatch<ZwlrOutputModeV1>::event
\* the mode handler marking the monitor it has updated
ModeFieldEvent_Mark(ms, mm, mode_id, ev) ==
  IF mode_id \notin DOMAIN mm THEN ms
  ELSE IF mm[mode_id] \notin DOMAIN ms THEN ms
  ELSE LET monitor == ms[mm[mode_id]]
           i == FindModeById(monitor.modes, mode_id)
       IN IF i = 0 THEN ms
          ELSE [ms EXCEPT ![mm[mode_id]].modes[i] =
                            ApplyModeField(monitor.modes[i], ev),
                          ![mm[mode_id]].changed = TRUE]

ModeFieldEvent(ms, mm, mode_id, ev) ==
  IF mode_id \notin DOMAIN mm THEN ms
  ELSE IF mm[mode_id] \notin DOMAIN ms THEN ms
  ELSE LET monitor == ms[mm[mode_id]]
           i == FindModeById(monitor.modes, mode_id)
       IN IF i = 0 THEN ms
          ELSE [ms EXCEPT ![mm[mode_id]].modes[i] =
                            ApplyModeField(monitor.modes[i], ev)]

\* Head { head } inserting the new monitor already marked as changed
ManagerHeadEvent_Announce(ms, head_id) ==
  [h \in DOMAIN ms \cup {head_id} |->
     IF h = head_id THEN [NewMonitor(head_id) EXCEPT !.changed = TRUE]
     ELSE ms[h]]

\* Dispatch<ZwlrOutputManagerV1>::event for Head { head }
ManagerHeadEvent(ms, head_id) ==
  [h \in DOMAIN ms \cup {head_id} |->
     IF h = head_id THEN NewMonitor(head_id) ELSE ms[h]]

\* ManagerDoneEvent without the test of self.initialized
ManagerDoneEvent_EveryDone(ms, init, new_serial) ==
  [serial |-> new_serial,
   initialized |-> TRUE,
   events |-> <<InitialState(ms)>>]

\* ManagerDoneEvent without the send
ManagerDoneEvent_Silent(ms, init, new_serial) ==
  [serial |-> new_serial,
   initialized |-> TRUE,
   events |-> << >>]

\* Dispatch<ZwlrOutputManagerV1>::event for Done { serial }
ManagerDoneEvent(ms, init, new_serial) ==
  [serial |-> new_serial,
   initialized |-> TRUE,
   events |-> IF ~init THEN <<InitialState(ms)>> ELSE << >>]

\* Dispatch<ZwlrOutputConfigurationV1>::event
ConfigurationEvent(result, ev) ==
  CASE ev = "Succeeded" -> "Succeeded"
    [] ev = "Failed" -> "Failed"
    [] ev = "Cancelled" -> "Cancelled"
    [] OTHER -> result

\* the sequences that list each element of S once
Orders(S) ==
  {o \in [1..Cardinality(S) -> S] : \A i, j \in DOMAIN o : o[i] = o[j] => i = j}

\* flush_changed without monitor.changed = false
flush_changed_KeepDirty(ms, init, order) ==
  IF ~init
    THEN [monitors |-> ms, events |-> << >>]
    ELSE [monitors |-> ms,
          events |->
            [i \in DOMAIN order |-> Changed([ms[order[i]] EXCEPT !.changed = FALSE])]]

\* flush_changed cloning the monitor before it clears the flag
flush_changed_Stale(ms, init, order) ==
  IF ~init
    THEN [monitors |-> ms, events |-> << >>]
    ELSE [monitors |->
            [h \in DOMAIN ms |->
               IF ms[h].changed THEN [ms[h] EXCEPT !.changed = FALSE] ELSE ms[h]],
          events |-> [i \in DOMAIN order |-> Changed(ms[order[i]])]]

\* flush_changed; order lists the dirty heads as self.monitors.values_mut()
\* meets them
flush_changed(ms, init, order) ==
  IF ~init
    THEN [monitors |-> ms, events |-> << >>]
    ELSE [monitors |->
            [h \in DOMAIN ms |->
               IF ms[h].changed THEN [ms[h] EXCEPT !.changed = FALSE] ELSE ms[h]],
          events |->
            [i \in DOMAIN order |-> Changed([ms[order[i]] EXCEPT !.changed = FALSE])]]

\* WlMonitorManagerError::EventQueueError(text)
EventQueueError(text) == [variant |-> "EventQueueError", text |-> text]

\* format!("{:?}", e) of a WlMonitorManagerError
DebugFmt(e) == e.variant \o "(\"" \o e.text \o "\")"

\* run() has returned no error
NoError == [variant |-> "none", text |-> ""]

\* e.to_string() of the error a failed flush or dispatch returns
FlushErrorText == "flush failed"
DispatchErrorText == "dispatch failed"

\* the result of wait_for_result once config_result has left Idle
WaitResult(result) ==
  CASE result = "Succeeded" -> "Ok"
    [] result = "Failed" -> "compositor rejected the configuration"
    [] result = "Cancelled" -> "configuration cancelled (serial outdated)"

\* ------------------------------------------------------------------------
\* State
\* ------------------------------------------------------------------------

\* capacity of the two sync_channels the host creates
EventCap == 16
ActionCap == 16

VARIABLES
  monitors,       \* WlMonitorManager.monitors: head id -> WlMonitor
  mode_monitor,   \* WlMonitorManager.mode_monitor: mode id -> head id
  zwlr_manager,   \* WlMonitorManager.zwlr_manager is Some
  serial,         \* WlMonitorManager.serial (None or the serial)
  initialized,    \* WlMonitorManager.initialized
  config_result,  \* WlMonitorManager.config_result
  controller,     \* the actions in the inward channel
  sent,           \* every event put in the outward channel, oldest first
  recvd,          \* how many of them the host has taken out
  pending,        \* the events of the send the engine is blocked in
  config,         \* the configuration object of handle_action
  pc,             \* where run() is
  error,          \* what run() returned (NoError while it runs)
  tickChanged,    \* the Changed events sent since the current iteration
                  \* of run()'s loop began: each one's head, and the
                  \* numbers of the first and last field event it reports
  flushLen,       \* how many events had been sent when the latest
                  \* flush_changed returned
  nextHead,       \* the next head id the compositor hands out
  nextMode,       \* the next mode id the compositor hands out
  nEvents,        \* protocol events dispatched
  nActions,       \* actions the host has sent
  cause           \* per head, the first and last dispatched field event
                  \* not yet reported (their numbers; 0 when there is none)

vars ==
  <<monitors, mode_monitor, zwlr_manager, serial, initialized, config_result,
    controller, sent, recvd, pending, config, pc, error, tickChanged,
    flushLen, nextHead, nextMode, nEvents, nActions, cause>>

NoCause == [first |-> 0, last |-> 0]

\* The configuration object of handle_action: its state, the serial it was
\* created with, the requests sent on it, whether the compositor has
\* answered it; and, for reference, the action and the monitor table it was
\* built from, the head find() returned, and the action and table of the
\* configuration before it
NoConfig ==
  [state |-> "none", serial |-> None, reqs |-> EmptyBag,
   action |-> Toggle("", NoMode), table |-> EmptyTable, found |-> None,
   answered |-> FALSE,
   prev |-> [state |-> "none", action |-> Toggle("", NoMode),
             table |-> EmptyTable]]

\* An event as the log keeps it: with the numbers of the first and last
\* protocol event it reports (0 and 0 when it reports none)
Entry(ev, first, last) ==
  [ev |-> ev, first |-> first, last |-> last]

Plain(events) == [i \in DOMAIN events |-> Entry(events[i], 0, 0)]

\* the heads of the Changed events among entries, in order
ChangedHeads(entries) ==
  LET RECURSIVE heads(_)
      heads(i) ==
        IF i > Len(entries) THEN << >>
        ELSE (IF entries[i].ev.type = "Changed"
                THEN <<[head |-> entries[i].ev.monitor.head_id,
                        first |-> entries[i].first,
                        last |-> entries[i].last]>>
                ELSE << >>)
             \o heads(i + 1)
  IN heads(1)

\* emitter.try_send(e) for each entry in turn: an entry that finds no room
\* is dropped
Emit_TrySend(entries) ==
  LET free == EventCap - (Len(sent) - recvd)
      k == IF Len(entries) <= free THEN Len(entries) ELSE free
  IN /\ sent' = sent \o SubSeq(entries, 1, k)
     /\ pending' = << >>
     /\ tickChanged' = tickChanged \o ChangedHeads(SubSeq(entries, 1, k))

\* emitter.send(e) for each entry in turn: the sends that find room
\* complete, the engine blocks in the first that does not
Emit(entries) ==
  LET free == EventCap - (Len(sent) - recvd)
      k == IF Len(entries) <= free THEN Len(entries) ELSE free
  IN /\ sent' = sent \o SubSeq(entries, 1, k)
     /\ pending' = SubSeq(entries, k + 1, Len(entries))
     /\ tickChanged' = tickChanged \o ChangedHeads(entries)

\* every event the engine has sent or is sending
Emitted == sent \o pending

Running == pc # "exit" /\ pending = << >>

Init ==
  /\ monitors = EmptyTable
  /\ mode_monitor = [m \in {} |-> None]
  /\ zwlr_manager = FALSE
  /\ serial = None
  /\ initialized = FALSE
  /\ config_result = "Idle"
  /\ controller = << >>
  /\ sent = << >>
  /\ recvd = 0
  /\ pending = << >>
  /\ config = NoConfig
  /\ pc = "tick"
  /\ error = NoError
  /\ tickChanged = << >>
  /\ flushLen = 0
  /\ nextHead = 1
  /\ nextMode = 1
  /\ nEvents = 0
  /\ nActions = 0
  /\ cause = [h \in {} |-> NoCause]

\* ------------------------------------------------------------------------
\* The host
\* ------------------------------------------------------------------------

\* the actions the host sends
HostActions == {Toggle(n, NoMode) : n \in Names}

\* action_tx.send(action).  The engine looks at the channel only in
\* try_recv, so the host's sends are placed right before it.
HostSend ==
  /\ pc = "try_recv"
  /\ nActions < MaxActions
  /\ Len(controller) < ActionCap
  /\ \E a \in HostActions : controller' = Append(controller, a)
  /\ nActions' = nActions + 1
  /\ UNCHANGED <<monitors, mode_monitor, zwlr_manager, serial, initialized,
                 config_result, sent, recvd, pending, config, pc, error,
                 tickChanged, flushLen, nextHead, nextMode, nEvents, cause>>

\* ------------------------------------------------------------------------
\* The compositor's events, as eq.dispatch_pending / eq.blocking_dispatch
\* hand them to the handlers
\* ------------------------------------------------------------------------

Dispatching ==
  /\ pc \in {"dispatch", "wait_dispatch"}
  /\ pending = << >>
  /\ nEvents < MaxEvents

\* wl_registry Global
RegistryGlobal ==
  /\ Dispatching
  /\ ~zwlr_manager
  /\ \E interface \in {"zwlr_output_manager_v1", "wl_output"} :
       zwlr_manager' = (interface = "zwlr_output_manager_v1")
  /\ nEvents' = nEvents + 1
  /\ UNCHANGED <<monitors, mode_monitor, serial, initialized, config_result,
                 controller, sent, recvd, pending, config, pc, error,
                 tickChanged, flushLen, nextHead, nextMode, nActions,
                 cause>>

\* zwlr_output_manager_v1 Head
ManagerHead ==
  /\ Dispatching
  /\ zwlr_manager
  /\ nextHead <= MaxHeads
  /\ monitors' = ManagerHeadEvent(monitors, nextHead)
  /\ cause' = [h \in DOMAIN cause \cup {nextHead} |->
                 IF h = nextHead THEN NoCause ELSE cause[h]]
  /\ nextHead' = nextHead + 1
  /\ nEvents' = nEvents + 1
  /\ UNCHANGED <<mode_monitor, zwlr_manager, serial, initialized,
                 config_result, controller, sent, recvd, pending, config, pc,
                 error, tickChanged, flushLen, nextMode, nActions>>

\* zwlr_output_manager_v1 Done
ManagerDone ==
  /\ Dispatching
  /\ zwlr_manager
  /\ LET r == ManagerDoneEvent(monitors, initialized, serial + 1)
     IN /\ serial' = r.serial
        /\ initialized' = r.initialized
        /\ Emit([i \in DOMAIN r.events |->
                   Entry(r.events[i], nEvents + 1, nEvents + 1)])
  /\ nEvents' = nEvents + 1
  /\ UNCHANGED <<monitors, mode_monitor, zwlr_manager, config_result,
                 controller, recvd, config, pc, error, flushLen, nextHead,
                 nextMode, nActions, cause>>

\* zwlr_output_head_v1 Finished
HeadFinished ==
  /\ Dispatching
  /\ \E h \in 1..(nextHead - 1) :
       LET r == HeadFinishedEvent(monitors, mode_monitor, h)
       IN /\ monitors' = r.monitors
          /\ mode_monitor' = r.mode_monitor
          /\ cause' = [x \in DOMAIN r.monitors |-> cause[x]]
          /\ Emit([i \in DOMAIN r.events |->
                     Entry(r.events[i], nEvents + 1, nEvents + 1)])
  /\ nEvents' = nEvents + 1
  /\ UNCHANGED <<zwlr_manager, serial, initialized, config_result,
                 controller, recvd, config, pc, error, flushLen, nextHead,
                 nextMode, nActions>>

\* zwlr_output_head_v1 Mode
HeadMode ==
  /\ Dispatching
  /\ nextMode <= MaxModes
  /\ \E h \in DOMAIN monitors :
       LET r == HeadModeEvent(monitors, mode_monitor, h, nextMode)
       IN /\ monitors' = r.monitors
          /\ mode_monitor' = r.mode_monitor
  /\ nextMode' = nextMode + 1
  /\ nEvents' = nEvents + 1
  /\ UNCHANGED <<zwlr_manager, serial, initialized, config_result,
                 controller, sent, recvd, pending, config, pc, error,
                 tickChanged, flushLen, nextHead, nActions, cause>>

\* the head field events the compositor sends for head h: its name, once and
\* unlike any other head's; whether it is enabled; which of its modes is
\* current
HeadFields(h) ==
  {Ev("Name", n, 0, 0) :
     n \in {x \in Names : /\ monitors[h].name = ""
                          /\ \A o \in DOMAIN monitors : monitors[o].name # x}}
  \cup {Ev("Enabled", "", e, 0) : e \in {0, 1}}
  \cup {Ev("CurrentMode", "", monitors[h].modes[i].mode_id, 0) :
          i \in 1..Len(monitors[h].modes)}

\* a field event of zwlr_output_head_v1
HeadField ==
  /\ Dispatching
  /\ \E h \in DOMAIN monitors : \E ev \in HeadFields(h) :
       LET r == HeadFieldEvent(monitors, initialized, h, ev)
       IN /\ monitors' = r.monitors
          /\ cause' =
               [cause EXCEPT ![h] =
                  IF r.monitors[h].changed
                    THEN [first |-> IF monitors[h].changed THEN @.first
                                    ELSE nEvents + 1,
                          last |-> nEvents + 1]
                    ELSE @]
          /\ Emit([i \in DOMAIN r.events |->
                     Entry(r.events[i], nEvents + 1, nEvents + 1)])
  /\ nEvents' = nEvents + 1
  /\ UNCHANGED <<mode_monitor, zwlr_manager, serial, initialized,
                 config_result, controller, recvd, config, pc, error,
                 flushLen, nextHead, nextMode, nActions>>

\* the mode field events the compositor sends
ModeFields == {Ev("Preferred", "", 0, 0)}

\* a field event of zwlr_output_mode_v1
ModeField ==
  /\ Dispatching
  /\ \E m \in 1..(nextMode - 1) : \E ev \in ModeFields :
       monitors' = ModeFieldEvent(monitors, mode_monitor, m, ev)
  /\ nEvents' = nEvents + 1
  /\ UNCHANGED <<mode_monitor, zwlr_manager, serial, initialized,
                 config_result, controller, sent, recvd, pending, config, pc,
                 error, tickChanged, flushLen, nextHead, nextMode, nActions,
                 cause>>

\* zwlr_output_configuration_v1 Succeeded, Failed or Cancelled: the
\* compositor's one answer to an applied configuration
ConfigurationResult ==
  /\ Dispatching
  /\ config.state = "applied"
  /\ ~config.answered
  /\ \E ev \in {"Succeeded", "Failed", "Cancelled"} :
       config_result' = ConfigurationEvent(config_result, ev)
  /\ config' = [config EXCEPT !.answered = TRUE]
  /\ nEvents' = nEvents + 1
  /\ UNCHANGED <<monitors, mode_monitor, zwlr_manager, serial, initialized,
                 controller, sent, recvd, pending, pc, error, tickChanged,
                 flushLen, nextHead, nextMode, nActions, cause>>

\* ------------------------------------------------------------------------
\* WlMonitorManager::run
\* ------------------------------------------------------------------------

\* the heads flush_changed reports
DirtyHeads ==
  IF initialized THEN {h \in DOMAIN monitors : monitors[h].changed} ELSE {}

\* self.flush_changed(), the dirty heads met in some order
FlushChangedStep(after) ==
  \E order \in Orders(DirtyHeads) :
    LET r == flush_changed(monitors, initialized, order)
    IN /\ monitors' = r.monitors
       /\ cause' = [h \in DOMAIN cause |->
                      IF r.monitors[h].changed \/ ~initialized
                        THEN cause[h] ELSE NoCause]
       /\ Emit([i \in DOMAIN r.events |->
                  Entry(r.events[i], cause[r.events[i].monitor.head_id].first,
                        cause[r.events[i].monitor.head_id].last)]
               \o after)
       /\ flushLen' = Len(Emitted) + Len(r.events)

\* run() returns: the manager it owns (self) is dropped, and with it the
\* mirror, the emitter and the controller
Return(err) ==
  /\ pc' = "exit"
  /\ error' = err
  /\ monitors' = EmptyTable
  /\ mode_monitor' = [m \in {} |-> None]
  /\ zwlr_manager' = FALSE
  /\ serial' = None
  /\ initialized' = FALSE
  /\ config_result' = "Idle"
  /\ controller' = << >>
  /\ cause' = [h \in {} |-> NoCause]
  /\ tickChanged' = << >>
  /\ flushLen' = 0
  /\ UNCHANGED <<sent, recvd, pending, config, nextHead, nextMode, nEvents,
                 nActions>>

\* eq.flush() succeeds; the poll and the read follow
RunFlush ==
  /\ Running
  /\ pc = "tick"
  /\ tickChanged' = << >>
  /\ pc' = "dispatch"
  /\ UNCHANGED <<monitors, mode_monitor, zwlr_manager, serial, initialized,
                 config_result, controller, sent, recvd, pending, config,
                 error, flushLen, nextHead, nextMode, nEvents, nActions,
                 cause>>

\* eq.flush() fails: run returns the error
RunFlushError ==
  /\ Running
  /\ pc = "tick"
  /\ Return(EventQueueError(FlushErrorText))

\* eq.dispatch_pending() returns Ok
DispatchPending ==
  /\ Running
  /\ pc = "dispatch"
  /\ pc' = "flush_changed"
  /\ UNCHANGED <<monitors, mode_monitor, zwlr_manager, serial, initialized,
                 config_result, controller, sent, recvd, pending, config,
                 error, tickChanged, flushLen, nextHead, nextMode, nEvents,
                 nActions, cause>>

\* eq.dispatch_pending() returns Err: run returns the error
DispatchPendingError ==
  /\ Running
  /\ pc = "dispatch"
  /\ Return(EventQueueError(DispatchErrorText))

\* self.flush_changed() of the loop body
RunFlushChanged ==
  /\ Running
  /\ pc = "flush_changed"
  /\ FlushChangedStep(<< >>)
  /\ pc' = "try_recv"
  /\ UNCHANGED <<mode_monitor, zwlr_manager, serial, initialized,
                 config_result, controller, recvd, config, error, nextHead,
                 nextMode, nEvents, nActions>>

\* self.controller.try_recv() finds no action
TryRecvEmpty ==
  /\ Running
  /\ pc = "try_recv"
  /\ controller = << >>
  /\ pc' = "tick"
  /\ UNCHANGED <<monitors, mode_monitor, zwlr_manager, serial, initialized,
                 config_result, controller, sent, recvd, pending, config,
                 error, tickChanged, flushLen, nextHead, nextMode, nEvents,
                 nActions, cause>>

\* run ignoring the Err of handle_action
HandleActionError_Continue ==
  /\ Running
  /\ pc = "try_recv"
  /\ controller # << >>
  /\ serial = None \/ ~zwlr_manager
  /\ controller' = Tail(controller)
  /\ pc' = "tick"
  /\ UNCHANGED <<monitors, mode_monitor, zwlr_manager, serial, initialized,
                 config_result, sent, recvd, pending, config, error,
                 tickChanged, flushLen, nextHead, nextMode, nEvents,
                 nActions, cause>>

\* handle_action returns Err for want of a serial or a manager: the action
\* is dropped and run returns the error
HandleActionError ==
  /\ Running
  /\ pc = "try_recv"
  /\ controller # << >>
  /\ serial = None \/ ~zwlr_manager
  /\ Return(IF serial = None THEN EventQueueError("no serial available")
            ELSE EventQueueError("no manager available"))

\* handle_action up to the first blocking_dispatch of wait_for_result: the
\* configuration is created with the serial, filled, applied, and
\* config_result is reset
HandleAction ==
  /\ Running
  /\ pc = "try_recv"
  /\ controller # << >>
  /\ serial # None
  /\ zwlr_manager
  /\ LET action == Head(controller)
     IN \E found \in (IF action.kind = "Toggle"
                        THEN FindNamed(monitors, action.name) ELSE {None}) :
          LET r == Configure(monitors, action, found)
          IN /\ monitors' = r.monitors
             /\ Emit(Plain(r.events))
             /\ config' = [state |-> "applied", serial |-> serial,
                           reqs |-> r.reqs, action |-> action,
                           table |-> monitors, found |-> found,
                           answered |-> FALSE,
                           prev |-> [state |-> config.state,
                                     action |-> config.action,
                                     table |-> config.table]]
  /\ controller' = Tail(controller)
  /\ config_result' = "Idle"
  /\ pc' = "wait_dispatch"
  /\ UNCHANGED <<mode_monitor, zwlr_manager, serial, initialized, recvd,
                 error, flushLen, nextHead, nextMode, nEvents, nActions,
                 cause>>

\* wait_for_result resetting config_result inside its loop
BlockingDispatch_Reset ==
  /\ Running
  /\ pc = "wait_dispatch"
  /\ pc' = "wait_flush"
  /\ config_result' = "Idle"
  /\ UNCHANGED <<monitors, mode_monitor, zwlr_manager, serial, initialized,
                 controller, sent, recvd, pending, config, error,
                 tickChanged, flushLen, nextHead, nextMode, nEvents,
                 nActions, cause>>

\* eq.blocking_dispatch() of wait_for_result returns Ok
BlockingDispatch ==
  /\ Running
  /\ pc = "wait_dispatch"
  /\ pc' = "wait_flush"
  /\ UNCHANGED <<monitors, mode_monitor, zwlr_manager, serial, initialized,
                 config_result, controller, sent, recvd, pending, config,
                 error, tickChanged, flushLen, nextHead, nextMode, nEvents,
                 nActions, cause>>

\* handle_action returning on the Err of wait_for_result before
\* config.destroy()
BlockingDispatchError_Leak ==
  /\ Running
  /\ pc = "wait_dispatch"
  /\ Emit(Plain(<<ActionFailed("ConfigApply",
                               DebugFmt(EventQueueError(DispatchErrorText)),
                               "", << >>)>>))
  /\ pc' = "tick"
  /\ UNCHANGED <<monitors, mode_monitor, zwlr_manager, serial, initialized,
                 config_result, controller, recvd, config, error, flushLen,
                 nextHead, nextMode, nEvents, nActions, cause>>

\* eq.blocking_dispatch() returns Err: wait_for_result returns it,
\* handle_action reports it, destroys the configuration and returns Ok
BlockingDispatchError ==
  /\ Running
  /\ pc = "wait_dispatch"
  /\ Emit(Plain(<<ActionFailed("ConfigApply",
                               DebugFmt(EventQueueError(DispatchErrorText)),
                               "", << >>)>>))
  /\ config' = [config EXCEPT !.state = "destroyed"]
  /\ pc' = "tick"
  /\ UNCHANGED <<monitors, mode_monitor, zwlr_manager, serial, initialized,
                 config_result, controller, recvd, error, flushLen,
                 nextHead, nextMode, nEvents, nActions, cause>>

\* handle_action dropping the error of wait_for_result
AfterWait_Mute(result) == << >>

\* what handle_action sends once wait_for_result has returned
AfterWait(result) ==
  IF WaitResult(result) = "Ok" THEN << >>
  ELSE <<ActionFailed("ConfigApply",
                      DebugFmt(EventQueueError(WaitResult(result))),
                      "", << >>)>>

\* wait_for_result with a loop that runs once
WaitFlushChanged_NoWait ==
  /\ Running
  /\ pc = "wait_flush"
  /\ config_result = "Idle"
  /\ FlushChangedStep(<< >>)
  /\ pc' = "tick"
  /\ UNCHANGED <<mode_monitor, zwlr_manager, serial, initialized,
                 config_result, controller, recvd, config, error, nextHead,
                 nextMode, nEvents, nActions>>

\* self.flush_changed() of wait_for_result with config_result still Idle:
\* the loop goes round
WaitFlushChanged ==
  /\ Running
  /\ pc = "wait_flush"
  /\ config_result = "Idle"
  /\ FlushChangedStep(<< >>)
  /\ pc' = "wait_dispatch"
  /\ UNCHANGED <<mode_monitor, zwlr_manager, serial, initialized,
                 config_result, controller, recvd, config, error, nextHead,
                 nextMode, nEvents, nActions>>

\* handle_action passing the error of wait_for_result on with ?
WaitDone_Propagate ==
  /\ Running
  /\ pc = "wait_flush"
  /\ config_result # "Idle"
  /\ IF WaitResult(config_result) = "Ok"
       THEN /\ FlushChangedStep(<< >>)
            /\ config' = [config EXCEPT !.state = "destroyed"]
            /\ pc' = "tick"
            /\ UNCHANGED <<mode_monitor, zwlr_manager, serial, initialized,
                           config_result, controller, recvd, error, nextHead,
                           nextMode, nEvents, nActions>>
       ELSE Return(EventQueueError(WaitResult(config_result)))

\* run polling the channel again once handle_action has returned
WaitDone_Again ==
  /\ Running
  /\ pc = "wait_flush"
  /\ config_result # "Idle"
  /\ FlushChangedStep(Plain(AfterWait(config_result)))
  /\ config' = [config EXCEPT !.state = "destroyed"]
  /\ pc' = "try_recv"
  /\ UNCHANGED <<mode_monitor, zwlr_manager, serial, initialized,
                 config_result, controller, recvd, error, nextHead, nextMode,
                 nEvents, nActions>>

\* self.flush_changed() of wait_for_result with a result in: the loop ends,
\* handle_action reports a Failed or Cancelled, destroys the configuration
\* and returns Ok
WaitDone ==
  /\ Running
  /\ pc = "wait_flush"
  /\ config_result # "Idle"
  /\ FlushChangedStep(Plain(AfterWait(config_result)))
  /\ config' = [config EXCEPT !.state = "destroyed"]
  /\ pc' = "tick"
  /\ UNCHANGED <<mode_monitor, zwlr_manager, serial, initialized,
                 config_result, controller, recvd, error, nextHead, nextMode,
                 nEvents, nActions>>

Next ==
  \/ HostSend
  \/ RegistryGlobal
  \/ ManagerHead
  \/ ManagerDone
  \/ HeadFinished
  \/ HeadMode
  \/ HeadField
  \/ ModeField
  \/ ConfigurationResult
  \/ RunFlush
  \/ RunFlushError
  \/ DispatchPending
  \/ DispatchPendingError
  \/ RunFlushChanged
  \/ TryRecvEmpty
  \/ HandleActionError
  \/ HandleAction
  \/ BlockingDispatch
  \/ BlockingDispatchError
  \/ WaitFlushChanged
  \/ WaitDone

Spec == Init /\ [][Next]_vars

\* ------------------------------------------------------------------------
\* Building transactions: handle_action on a range of monitor tables
\* ------------------------------------------------------------------------

\* the modes a compositor offers (width, height, refresh in Hz)
Offered == <<<<1920, 1080, 60>>, <<2560, 1440, 75>>>>

\* the id of the i-th mode of head h
ModeId(h, i) == (h - 1) * BuildModes + i

\* a catalog as the head and mode handlers build it: choice[i] says which
\* size and refresh the i-th mode announced and whether it is preferred;
\* cur is the index of the current mode (0: none announced)
BuildCatalog(h, choice, cur) ==
  [i \in 1..Len(choice) |->
     [mode_id |-> ModeId(h, i), head_id |-> h,
      refresh_rate |-> Offered[choice[i].offer][3],
      resolution |-> [height |-> Offered[choice[i].offer][2],
                      width |-> Offered[choice[i].offer][1]],
      preferred |-> choice[i].preferred,
      is_current |-> (i = cur)]]

\* a monitor of the table at try_recv: its fields as head events and earlier
\* Toggles left them, the dirty flag cleared by flush_changed
BuildMonitor(h, v) ==
  [NewMonitor(h) EXCEPT
     !.name = v.name,
     !.modes = BuildCatalog(h, v.choice, v.cur),
     !.enabled = v.enabled,
     !.current_mode = IF v.cur = 0 THEN None ELSE ModeId(h, v.cur),
     !.last_mode = IF v.last = 0 THEN None ELSE ModeId(h, v.last),
     !.position = [x |-> 1920 * (h - 1), y |-> 0],
     !.transform = from_wayland(h - 1),
     !.scale = h]

ModeChoices == [offer : 1..2, preferred : BOOLEAN]

\* head 1 in every shape
RichVariants ==
  {[name |-> n, enabled |-> e, choice |-> c, cur |-> k, last |-> l] :
     n \in {"DP-1", ""}, e \in BOOLEAN,
     c \in UNION {[1..len -> ModeChoices] : len \in 0..BuildModes},
     k \in 0..BuildModes, l \in 0..BuildModes}

\* the other heads: "HDMI-A-1" with its one mode, off or on, or a head
\* that has announced neither name nor mode yet
PlainVariants ==
  {[name |-> "HDMI-A-1", enabled |-> e,
    choice |-> <<[offer |-> 1, preferred |-> TRUE]>>,
    cur |-> IF e THEN 1 ELSE 0, last |-> 0] : e \in BOOLEAN}
  \cup {[name |-> "", enabled |-> e, choice |-> << >>, cur |-> 0,
         last |-> 0] : e \in BOOLEAN}

\* the current mode and the last mode are modes of the catalog, and a last
\* mode was remembered from a current mode
WellFormed(v) ==
  /\ v.cur <= Len(v.choice)
  /\ v.last <= Len(v.choice)
  /\ v.last # 0 => v.cur # 0

\* named heads have different names
BuildTables ==
  {EmptyTable} \cup
  UNION {
    {[h \in 1..n |-> BuildMonitor(h, IF h = 1 THEN r ELSE p[h])] :
       r \in {v \in RichVariants : WellFormed(v)},
       p \in {q \in [2..n -> {v \in PlainVariants : WellFormed(v)}] :
                \A a, b \in 2..n :
                  (a # b /\ q[a].name # "") => q[a].name # q[b].name}} :
    n \in 1..BuildHeads}

BuildActions ==
  UNION {
    {Toggle(n, NoMode), Toggle(n, SomeMode(1920, 1080, 60)),
     Toggle(n, SomeMode(2560, 1440, 75)), Toggle(n, SomeMode(1920, 1080, 75)),
     SwitchMode(n, 2560, 1440, 75), SwitchMode(n, 1920, 1080, 75),
     SetScale(n, 2), SetScale(n, 0), SetScale(n, -1), SetScale(n, NaN),
     SetScale(n, PosInf), SetTransform(n, "Rotate90")} :
    n \in {"DP-1", ""}}
  \cup {Toggle(NoSuchName, NoMode), SwitchMode(NoSuchName, 1920, 1080, 60),
        SetScale(NoSuchName, NegInf), SetTransform(NoSuchName, "Flipped")}

\* the mode -> head index of a table
ModeIndex(ms) ==
  [m \in UNION {{ms[h].modes[i].mode_id : i \in 1..Len(ms[h].modes)} :
                  h \in DOMAIN ms} |->
     CHOOSE h \in DOMAIN ms :
       \E i \in 1..Len(ms[h].modes) : ms[h].modes[i].mode_id = m]

\* run() at try_recv with one action in the channel, in a session whose
\* first Done came before any head
InitBuild ==
  /\ monitors \in BuildTables
  /\ mode_monitor = ModeIndex(monitors)
  /\ zwlr_manager = TRUE
  /\ serial = 1
  /\ initialized = TRUE
  /\ config_result = "Idle"
  /\ controller \in {<<a>> : a \in BuildActions}
  /\ sent = <<Entry(InitialState(EmptyTable), 0, 0)>>
  /\ recvd = 0
  /\ pending = << >>
  /\ config = NoConfig
  /\ pc = "try_recv"
  /\ error = NoError
  /\ tickChanged = << >>
  /\ flushLen = 1
  /\ nextHead = BuildHeads + 1
  /\ nextMode = BuildHeads * BuildModes + 1
  /\ nEvents = 0
  /\ nActions = 1
  /\ cause = [h \in DOMAIN monitors |-> NoCause]

SpecBuild == InitBuild /\ [][HandleAction]_vars

\* ------------------------------------------------------------------------
\* A session past its first Done, with a host that toggles monitors
\* ------------------------------------------------------------------------

\* actions the host sends, and protocol events the compositor sends
RunActions == 2
RunEvents == 3

\* "DP-1", enabled, with 1920x1080@60 (preferred) and 2560x1440@75, either
\* of them current; beside it, or not, "HDMI-A-1", disabled, with
\* 1920x1080@60 (preferred)
RunTables ==
  {[h \in 1..n |->
      BuildMonitor(h,
        IF h = 1
          THEN [name |-> "DP-1", enabled |-> TRUE,
                choice |-> <<[offer |-> 1, preferred |-> TRUE],
                             [offer |-> 2, preferred |-> FALSE]>>,
                cur |-> k, last |-> 0]
          ELSE [name |-> "HDMI-A-1", enabled |-> FALSE,
                choice |-> <<[offer |-> 1, preferred |-> TRUE]>>,
                cur |-> 0, last |-> 0])] :
     n \in 1..2, k \in 1..2}

\* the state after the Done that follows the heads' announcement: run() is
\* about to start an iteration
InitRun ==
  /\ monitors \in RunTables
  /\ mode_monitor = ModeIndex(monitors)
  /\ zwlr_manager = TRUE
  /\ serial = 1
  /\ initialized = TRUE
  /\ config_result = "Idle"
  /\ controller = << >>
  /\ sent = <<Entry(InitialState(monitors), 0, 0)>>
  /\ recvd = 0
  /\ pending = << >>
  /\ config = NoConfig
  /\ pc = "tick"
  /\ error = NoError
  /\ tickChanged = << >>
  /\ flushLen = 1
  /\ nextHead = BuildHeads + 1
  /\ nextMode = BuildHeads * BuildModes + 1
  /\ nEvents = MaxEvents - RunEvents
  /\ nActions = 0
  /\ cause = [h \in DOMAIN monitors |-> NoCause]

\* action_tx.send(Toggle { name, mode: None })
HostToggle ==
  /\ pc = "try_recv"
  /\ nActions < RunActions
  /\ Len(controller) < ActionCap
  /\ \E n \in Names : controller' = Append(controller, Toggle(n, NoMode))
  /\ nActions' = nActions + 1
  /\ UNCHANGED <<monitors, mode_monitor, zwlr_manager, serial, initialized,
                 config_result, sent, recvd, pending, config, pc, error,
                 tickChanged, flushLen, nextHead, nextMode, nEvents, cause>>

NextRun ==
  \/ HostToggle
  \/ HeadField
  \/ ConfigurationResult
  \/ RunFlush
  \/ RunFlushError
  \/ DispatchPending
  \/ DispatchPendingError
  \/ RunFlushChanged
  \/ TryRecvEmpty
  \/ HandleAction
  \/ BlockingDispatch
  \/ WaitFlushChanged
  \/ WaitDone

SpecRun == InitRun /\ [][NextRun]_vars

\* ------------------------------------------------------------------------
\* A host that falls behind: the outward channel almost full
\* ------------------------------------------------------------------------

HostEvents == 3
HostRecvs == 2

\* the events sent and not received at the start: InitialState
\* and a Changed of the first monitor per iteration of run since, one slot
\* of the channel left free
Backlog(ms) ==
  [i \in 1..(EventCap - 1) |->
     IF i = 1 THEN Entry(InitialState(ms), 0, 0)
     ELSE Entry(Changed(ms[1]), 0, 0)]

InitHost ==
  /\ monitors \in RunTables
  /\ mode_monitor = ModeIndex(monitors)
  /\ zwlr_manager = TRUE
  /\ serial = 1
  /\ initialized = TRUE
  /\ config_result = "Idle"
  /\ controller = << >>
  /\ sent = Backlog(monitors)
  /\ recvd = 0
  /\ pending = << >>
  /\ config = NoConfig
  /\ pc = "tick"
  /\ error = NoError
  /\ tickChanged = << >>
  /\ flushLen = Len(sent)
  /\ nextHead = BuildHeads + 1
  /\ nextMode = BuildHeads * BuildModes + 1
  /\ nEvents = MaxEvents - HostEvents
  /\ nActions = 0
  /\ cause = [h \in DOMAIN monitors |-> NoCause]

\* event_rx.recv() in the host: the oldest event leaves the channel
HostRecv ==
  /\ recvd < Len(sent)
  /\ recvd < HostRecvs
  /\ recvd' = recvd + 1
  /\ UNCHANGED <<monitors, mode_monitor, zwlr_manager, serial, initialized,
                 config_result, controller, sent, pending, config, pc, error,
                 tickChanged, flushLen, nextHead, nextMode, nEvents,
                 nActions, cause>>

\* the send the engine is blocked in finds room and returns; the engine
\* goes on to the next send
SendCompletes ==
  /\ pending # << >>
  /\ Len(sent) - recvd < EventCap
  /\ sent' = Append(sent, Head(pending))
  /\ pending' = Tail(pending)
  /\ UNCHANGED <<monitors, mode_monitor, zwlr_manager, serial, initialized,
                 config_result, controller, recvd, config, pc, error,
                 tickChanged, flushLen, nextHead, nextMode, nEvents,
                 nActions, cause>>

NextHost ==
  \/ HostRecv
  \/ SendCompletes
  \/ HeadField
  \/ HeadFinished
  \/ RunFlush
  \/ DispatchPending
  \/ RunFlushChanged
  \/ TryRecvEmpty

SpecHost == InitHost /\ [][NextHost]_vars

\* ------------------------------------------------------------------------
\* Waiting for the result of a configuration
\* ------------------------------------------------------------------------

WaitEvents == 3

\* try_recv is about to return the one action the host has sent
InitWait ==
  /\ monitors \in RunTables
  /\ mode_monitor = ModeIndex(monitors)
  /\ zwlr_manager = TRUE
  /\ serial = 1
  /\ initialized = TRUE
  /\ config_result = "Idle"
  /\ controller \in {<<Toggle(n, NoMode)>> : n \in Names}
  /\ sent = <<Entry(InitialState(monitors), 0, 0)>>
  /\ recvd = 0
  /\ pending = << >>
  /\ config = NoConfig
  /\ pc = "try_recv"
  /\ error = NoError
  /\ tickChanged = << >>
  /\ flushLen = 1
  /\ nextHead = BuildHeads + 1
  /\ nextMode = BuildHeads * BuildModes + 1
  /\ nEvents = MaxEvents - WaitEvents
  /\ nActions = 1
  /\ cause = [h \in DOMAIN monitors |-> NoCause]

NextWait ==
  \/ HeadField
  \/ ConfigurationResult
  \/ RunFlush
  \/ DispatchPending
  \/ RunFlushChanged
  \/ TryRecvEmpty
  \/ HandleAction
  \/ BlockingDispatch
  \/ BlockingDispatchError
  \/ WaitFlushChanged
  \/ WaitDone

\* the engine's thread runs: a blocking_dispatch that has dispatched
\* returns, and flush_changed and the test of config_result follow
SpecWait ==
  /\ InitWait
  /\ [][NextWait]_vars
  /\ WF_vars(BlockingDispatch)
  /\ WF_vars(WaitFlushChanged)
  /\ WF_vars(WaitDone)

\* ------------------------------------------------------------------------
\* Transforms on the wire: a SetTransform and the compositor's Transform
\* events
\* ------------------------------------------------------------------------

MaxWire == 9
TransformEvents == 2

\* wire values that are no wl_output::Transform (WEnum::Unknown)
UnknownWire == 8..MaxWire

\* "DP-1" and "HDMI-A-1", both enabled at 1920x1080@60, each with any
\* transform
TransformTables ==
  {[h \in 1..2 |->
      [BuildMonitor(h, [name |-> IF h = 1 THEN "DP-1" ELSE "HDMI-A-1",
                        enabled |-> TRUE,
                        choice |-> <<[offer |-> 1, preferred |-> TRUE]>>,
                        cur |-> 1, last |-> 0])
         EXCEPT !.transform = t[h]]] :
     t \in [1..2 -> WlTransform]}

\* try_recv is about to return a SetTransform for "DP-1"
InitTransform ==
  /\ monitors \in TransformTables
  /\ mode_monitor = ModeIndex(monitors)
  /\ zwlr_manager = TRUE
  /\ serial = 1
  /\ initialized = TRUE
  /\ config_result = "Idle"
  /\ controller \in {<<SetTransform("DP-1", t)>> : t \in WlTransform}
  /\ sent = <<Entry(InitialState(monitors), 0, 0)>>
  /\ recvd = 0
  /\ pending = << >>
  /\ config = NoConfig
  /\ pc = "try_recv"
  /\ error = NoError
  /\ tickChanged = << >>
  /\ flushLen = 1
  /\ nextHead = BuildHeads + 1
  /\ nextMode = BuildHeads * BuildModes + 1
  /\ nEvents = MaxEvents - TransformEvents
  /\ nActions = 1
  /\ cause = [h \in DOMAIN monitors |-> NoCause]

\* zwlr_output_head_v1 Transform for head h with wire value w
HeadTransform(h, w) ==
  /\ Dispatching
  /\ h \in DOMAIN monitors
  /\ LET r == HeadFieldEvent(monitors, initialized, h,
                             Ev("Transform", "", w, 0))
     IN /\ monitors' = r.monitors
        /\ cause' =
             [cause EXCEPT ![h] =
                IF r.monitors[h].changed
                  THEN [first |-> IF monitors[h].changed THEN @.first
                                  ELSE nEvents + 1,
                        last |-> nEvents + 1]
                  ELSE @]
        /\ Emit([i \in DOMAIN r.events |->
                   Entry(r.events[i], nEvents + 1, nEvents + 1)])
  /\ nEvents' = nEvents + 1
  /\ UNCHANGED <<mode_monitor, zwlr_manager, serial, initialized,
                 config_result, controller, recvd, config, pc, error,
                 flushLen, nextHead, nextMode, nActions>>

\* the enable requests of the configuration
EnableRequests == {r \in BagToSet(config.reqs) : r.req = "enable"}

\* the compositor applies the configuration and reports a head's transform
\* with the wire value the request for that head carried
HeadTransformApplied ==
  /\ config.state = "applied"
  /\ \E r \in EnableRequests : HeadTransform(r.head, r.transform)

\* the compositor reports a transform this client's protocol version does
\* not know
HeadTransformUnknown ==
  \E h \in DOMAIN monitors : \E w \in UnknownWire : HeadTransform(h, w)

NextTransform ==
  \/ HandleAction
  \/ HeadTransformApplied
  \/ HeadTransformUnknown

SpecTransform == InitTransform /\ [][NextTransform]_vars

\* ------------------------------------------------------------------------
\* Every field of a head, before and after the first Done
\* ------------------------------------------------------------------------

FieldEvents == 4

\* one head announced, with one mode, nothing else received yet
InitFields ==
  /\ monitors = HeadModeEvent(ManagerHeadEvent(EmptyTable, 1),
                              [m \in {} |-> None], 1, 1).monitors
  /\ mode_monitor = ModeIndex(monitors)
  /\ zwlr_manager = TRUE
  /\ serial = None
  /\ initialized = FALSE
  /\ config_result = "Idle"
  /\ controller = << >>
  /\ sent = << >>
  /\ recvd = 0
  /\ pending = << >>
  /\ config = NoConfig
  /\ pc = "dispatch"
  /\ error = NoError
  /\ tickChanged = << >>
  /\ flushLen = 0
  /\ nextHead = 2
  /\ nextMode = 2
  /\ nEvents = MaxEvents - FieldEvents
  /\ nActions = 0
  /\ cause = [h \in DOMAIN monitors |-> NoCause]

\* the field events of zwlr_output_head_v1 the handler has an arm for
AllHeadFields(h) ==
  {Ev("Name", "DP-1", 0, 0), Ev("Description", "Dell U2720Q", 0, 0),
   Ev("Make", "Dell Inc.", 0, 0), Ev("Model", "U2720Q", 0, 0),
   Ev("SerialNumber", "7Y3X", 0, 0), Ev("Enabled", "", 1, 0),
   Ev("Enabled", "", 0, 0), Ev("Position", "", 1920, 0),
   Ev("Scale", "", 2, 0), Ev("Transform", "", 3, 0)}
  \cup {Ev("CurrentMode", "", monitors[h].modes[i].mode_id, 0) :
          i \in 1..Len(monitors[h].modes)}

\* the field event ev of zwlr_output_head_v1 for head h
HeadFieldOf(h, ev) ==
  /\ Dispatching
  /\ h \in DOMAIN monitors
  /\ LET r == HeadFieldEvent(monitors, initialized, h, ev)
     IN /\ monitors' = r.monitors
        /\ cause' =
             [cause EXCEPT ![h] =
                IF r.monitors[h].changed
                  THEN [first |-> IF monitors[h].changed THEN @.first
                                  ELSE nEvents + 1,
                        last |-> nEvents + 1]
                  ELSE @]
        /\ Emit([i \in DOMAIN r.events |->
                   Entry(r.events[i], nEvents + 1, nEvents + 1)])
  /\ nEvents' = nEvents + 1
  /\ UNCHANGED <<mode_monitor, zwlr_manager, serial, initialized,
                 config_result, controller, recvd, config, pc, error,
                 flushLen, nextHead, nextMode, nActions>>

HeadFieldAny ==
  \E h \in DOMAIN monitors : \E ev \in AllHeadFields(h) : HeadFieldOf(h, ev)

NextFields ==
  \/ HeadFieldAny
  \/ ManagerDone
  \/ RunFlush
  \/ DispatchPending
  \/ RunFlushChanged
  \/ TryRecvEmpty

SpecFields == InitFields /\ [][NextFields]_vars

\* ------------------------------------------------------------------------
\* Mode announcements and mode fields only
\* ------------------------------------------------------------------------

ModeEvents == 4

\* "DP-1" is in the table without a mode; the first Done has or has not
\* been dispatched, and every monitor is clean
InitModes ==
  /\ monitors = [ManagerHeadEvent(EmptyTable, 1) EXCEPT ![1].name = "DP-1"]
  /\ mode_monitor = [m \in {} |-> None]
  /\ zwlr_manager = TRUE
  /\ initialized \in BOOLEAN
  /\ serial = IF initialized THEN 1 ELSE None
  /\ config_result = "Idle"
  /\ controller = << >>
  /\ sent = IF initialized THEN <<Entry(InitialState(monitors), 0, 0)>>
            ELSE << >>
  /\ recvd = 0
  /\ pending = << >>
  /\ config = NoConfig
  /\ pc = "dispatch"
  /\ error = NoError
  /\ tickChanged = << >>
  /\ flushLen = Len(sent)
  /\ nextHead = 2
  /\ nextMode = 1
  /\ nEvents = MaxEvents - ModeEvents
  /\ nActions = 0
  /\ cause = [h \in DOMAIN monitors |-> NoCause]

\* the field events of zwlr_output_mode_v1 the handler has an arm for
AllModeFields ==
  {Ev("Size", "", 1920, 1080), Ev("Size", "", 2560, 1440),
   Ev("Refresh", "", 60000, 0), Ev("Refresh", "", 74999, 0),
   Ev("Preferred", "", 0, 0)}

\* a field event of zwlr_output_mode_v1 for any mode announced so far
ModeFieldAny ==
  /\ Dispatching
  /\ \E m \in 1..(nextMode - 1) : \E ev \in AllModeFields :
       monitors' = ModeFieldEvent(monitors, mode_monitor, m, ev)
  /\ nEvents' = nEvents + 1
  /\ UNCHANGED <<mode_monitor, zwlr_manager, serial, initialized,
                 config_result, controller, sent, recvd, pending, config, pc,
                 error, tickChanged, flushLen, nextHead, nextMode, nActions,
                 cause>>

NextModes ==
  \/ HeadMode
  \/ ModeFieldAny
  \/ RunFlush
  \/ DispatchPending
  \/ RunFlushChanged
  \/ TryRecvEmpty

SpecModes == InitModes /\ [][NextModes]_vars

\* ------------------------------------------------------------------------
\* A compositor that answers a configuration more than once
\* ------------------------------------------------------------------------

\* Succeeded, Failed or Cancelled for a configuration that has had its
\* answer and is not destroyed yet: the handler is called with whatever the
\* compositor sends
ConfigurationResultAgain ==
  /\ Dispatching
  /\ config.state = "applied"
  /\ config.answered
  /\ \E ev \in {"Succeeded", "Failed", "Cancelled"} :
       config_result' = ConfigurationEvent(config_result, ev)
  /\ nEvents' = nEvents + 1
  /\ UNCHANGED <<monitors, mode_monitor, zwlr_manager, serial, initialized,
                 controller, sent, recvd, pending, config, pc, error,
                 tickChanged, flushLen, nextHead, nextMode, nActions, cause>>

NextResult ==
  \/ HostToggle
  \/ HeadField
  \/ ConfigurationResult
  \/ ConfigurationResultAgain
  \/ RunFlush
  \/ DispatchPending
  \/ RunFlushChanged
  \/ TryRecvEmpty
  \/ HandleAction
  \/ BlockingDispatch
  \/ WaitFlushChanged
  \/ WaitDone

SpecResult == InitRun /\ [][NextResult]_vars

\* ------------------------------------------------------------------------
\* A host of one thread that answers every event with an action
\* ------------------------------------------------------------------------

DuplexEvents == 3

\* the host's loop is: event_rx.recv(), then action_tx.send(action).  It
\* has received recvd events and sent nActions actions, so it is in send
\* when nActions < recvd and in recv otherwise.
HostInSend == nActions < recvd

\* the engine is in wait_for_result for the first action while head events
\* keep coming: the host has answered each Changed with a Toggle, which
\* the engine does not take while it waits, and both channels are full
InitDuplex ==
  /\ \E table \in RunTables :
       LET action == Toggle("DP-1", NoMode)
           r == Configure(table, action, 1)
       IN /\ monitors = r.monitors
          /\ config = [state |-> "applied", serial |-> 1, reqs |-> r.reqs,
                       action |-> action, table |-> table, found |-> 1,
                       answered |-> FALSE,
                       prev |-> [state |-> "none",
                                 action |-> Toggle("", NoMode),
                                 table |-> EmptyTable]]
          /\ sent = [i \in 1..(2 * EventCap + 1) |->
                       IF i = 1 THEN Entry(InitialState(table), 0, 0)
                       ELSE Entry(Changed(table[1]), 0, 0)]
  /\ mode_monitor = ModeIndex(monitors)
  /\ zwlr_manager = TRUE
  /\ serial = 1
  /\ initialized = TRUE
  /\ config_result = "Idle"
  /\ controller = [i \in 1..ActionCap |-> Toggle("HDMI-A-1", NoMode)]
  /\ recvd = ActionCap + 1
  /\ pending = << >>
  /\ pc = "wait_dispatch"
  /\ error = NoError
  /\ tickChanged = << >>
  /\ flushLen = Len(sent)
  /\ nextHead = BuildHeads + 1
  /\ nextMode = BuildHeads * BuildModes + 1
  /\ nEvents = MaxEvents - DuplexEvents
  /\ nActions = ActionCap + 1
  /\ cause = [h \in DOMAIN monitors |-> NoCause]

\* event_rx.recv() returns the oldest event
HostLoopRecv ==
  /\ ~HostInSend
  /\ recvd < Len(sent)
  /\ recvd' = recvd + 1
  /\ UNCHANGED <<monitors, mode_monitor, zwlr_manager, serial, initialized,
                 config_result, controller, sent, pending, config, pc, error,
                 tickChanged, flushLen, nextHead, nextMode, nEvents,
                 nActions, cause>>

\* action_tx.send(action) finds room and returns
HostLoopSend ==
  /\ HostInSend
  /\ Len(controller) < ActionCap
  /\ controller' = Append(controller, Toggle("HDMI-A-1", NoMode))
  /\ nActions' = nActions + 1
  /\ UNCHANGED <<monitors, mode_monitor, zwlr_manager, serial, initialized,
                 config_result, sent, recvd, pending, config, pc, error,
                 tickChanged, flushLen, nextHead, nextMode, nEvents, cause>>

NextDuplex ==
  \/ HostLoopRecv
  \/ HostLoopSend
  \/ SendCompletes
  \/ HeadField
  \/ ConfigurationResult
  \/ RunFlush
  \/ DispatchPending
  \/ RunFlushChanged
  \/ HandleAction
  \/ BlockingDispatch
  \/ WaitFlushChanged
  \/ WaitDone

SpecDuplex == InitDuplex /\ [][NextDuplex]_vars

\* ------------------------------------------------------------------------
\* The outward event stream
\* ------------------------------------------------------------------------

\* the positions of the log that hold an event of one of the types
Positions(log, types) == {i \in DOMAIN log : log[i].ev.type \in types}

\* the events a step sends
Sent == SubSeq(Emitted', Len(Emitted) + 1, Len(Emitted'))

\* C1: at most one InitialState is ever sent.  The step that dispatches the
\* first Done (the serial goes from None to a value) sends exactly one, which
\* lists the monitor table as it is at that moment; no other step, a later
\* Done included, sends any.
C1_InitialStateOnce ==
  /\ [](Cardinality(Positions(Emitted, {"InitialState"})) <= 1)
  /\ [][IF serial = None /\ serial' # None
          THEN /\ Cardinality(Positions(Sent, {"InitialState"})) = 1
               /\ \A i \in Positions(Sent, {"InitialState"}) :
                    Sent[i].ev = InitialState(monitors)
          ELSE Positions(Sent, {"InitialState"}) = {}]_vars

\* a second Done has been dispatched after an InitialState that lists a
\* monitor
C1_Witness ==
  /\ serial >= 2
  /\ \E i \in Positions(Emitted, {"InitialState"}) :
       DOMAIN Emitted[i].ev.monitors # {}

\* C2: in the outward stream an InitialState comes before every Changed and
\* before every Removed of a monitor it lists; while the engine runs
\* uninitialized the stream holds no Changed.
C2_InitialStateFirst ==
  /\ \A j \in Positions(Emitted, {"Changed"}) :
       \E i \in Positions(Emitted, {"InitialState"}) : i < j
  /\ \A j \in Positions(Emitted, {"Removed"}) :
       \A i \in Positions(Emitted, {"InitialState"}) :
         Emitted[j].ev.id \in DOMAIN Emitted[i].ev.monitors => i < j
  /\ (pc # "exit" /\ ~initialized) => Positions(Emitted, {"Changed"}) = {}

\* the stream holds an InitialState, then a Changed and a Removed of a
\* monitor it lists
C2_Witness ==
  \E i \in Positions(Emitted, {"InitialState"}) :
    /\ \E j \in Positions(Emitted, {"Changed"}) :
         Emitted[j].ev.monitor.head_id \in DOMAIN Emitted[i].ev.monitors
    /\ \E j \in Positions(Emitted, {"Removed"}) :
         Emitted[j].ev.id \in DOMAIN Emitted[i].ev.monitors

\* the Changed and Removed events of the log sent after its InitialState
Reports(log) ==
  {j \in Positions(log, {"Changed", "Removed"}) :
     \E i \in Positions(log, {"InitialState"}) : i < j}

\* C3 as the specification states it: of two Changed/Removed events sent
\* after initialization, the one sent later reports no protocol event
\* dispatched before one the earlier reports.
C3_ProtocolOrder ==
  \A i, j \in Reports(Emitted) :
    i < j => Emitted[i].last < Emitted[j].first

\* C3: protocol order is kept across flush_changed.  Every Changed/Removed
\* event a step sends reports only protocol events dispatched after all
\* those reported by the Changed/Removed events that had been sent when the
\* latest call of flush_changed returned.
C3_OrderAcrossFlush ==
  [][\A i \in Reports(Emitted) : \A j \in Reports(Emitted') :
       (i <= flushLen /\ Len(Emitted) < j)
         => Emitted[i].last < Emitted'[j].first]_vars

\* a Changed sent by one call of flush_changed and, sent after that call
\* returned, a Removed or a second Changed for the same monitor
C3_Witness ==
  \E i, j \in Reports(Emitted) :
    /\ i < j
    /\ Emitted[i].ev.type = "Changed"
    /\ \/ Emitted[j].ev.type = "Removed"
       \/ /\ Emitted[j].ev.type = "Changed"
          /\ Emitted[j].ev.monitor.head_id = Emitted[i].ev.monitor.head_id

\* no head has two of the Changed events
OneEach(changed) ==
  \A i, j \in DOMAIN changed : changed[i].head = changed[j].head => i = j

\* C4 as the specification states it: the Changed events one iteration of
\* run()'s loop sends, the action's wait included, are for different
\* monitors.
C4_OnePerTick == OneEach(tickChanged)

\* C4: an iteration of run()'s loop sends at most one Changed for a monitor
\* before it takes an action, and every further Changed for that monitor in
\* the same iteration reports only field events dispatched after the
\* previous one was sent.
C4_OnePerFlush ==
  /\ pc \in {"dispatch", "flush_changed", "try_recv"} => OneEach(tickChanged)
  /\ \A i, j \in DOMAIN tickChanged :
       (i < j /\ tickChanged[i].head = tickChanged[j].head)
         => tickChanged[i].last < tickChanged[j].first

\* an iteration has sent one Changed that reports two field events, and
\* then, waiting for a configuration's result, a second for the same monitor
C4_Witness ==
  \E i, j \in DOMAIN tickChanged :
    /\ i < j
    /\ tickChanged[i].head = tickChanged[j].head
    /\ tickChanged[i].first < tickChanged[i].last

\* ------------------------------------------------------------------------
\* The transactions built
\* ------------------------------------------------------------------------

\* the requests of the configuration that name head h, and how many there
\* are
RequestsFor(h) == {r \in BagToSet(config.reqs) : r.head = h}
CountFor(h) ==
  LET rs == RequestsFor(h)
      RECURSIVE sum(_)
      sum(S) == IF S = {} THEN 0
                ELSE LET r == CHOOSE x \in S : TRUE
                     IN CopiesIn(r, config.reqs) + sum(S \ {r})
  IN sum(rs)

\* monitor m's mirrored state as one request: enabled with its current mode
\* (if any), position, transform and scale, or disabled
Mirrored(m) ==
  IF m.enabled
    THEN [req |-> "enable", head |-> m.head_id, mode |-> m.current_mode,
          x |-> m.position.x, y |-> m.position.y,
          transform |-> to_wayland(m.transform), scale |-> m.scale]
    ELSE [req |-> "disable", head |-> m.head_id, mode |-> None, x |-> 0,
          y |-> 0, transform |-> 0, scale |-> 0]

\* the configuration holds one request for head h of the table it was built
\* from: the head's mirrored state
Preserved(h) ==
  /\ CountFor(h) = 1
  /\ RequestsFor(h) = {Mirrored(config.table[h])}

\* the configuration holds one request for head h: enabled with mode id
EnabledWith(h, id) ==
  /\ CountFor(h) = 1
  /\ \A r \in RequestsFor(h) : r.req = "enable" /\ r.mode = id

\* the heads the action of the configuration names
Targets == Named(config.table, config.action.name)

\* the ActionFailed events sent for an action kind
Failures(kind) ==
  {i \in Positions(Emitted, {"ActionFailed"}) : Emitted[i].ev.action = kind}

\* C5: in the transaction built for an action of any kind, from any monitor
\* table, every monitor whose name is not the action's has exactly one
\* request: its mirrored state.
C5_OthersPreserved ==
  config.state = "applied" =>
    \A h \in DOMAIN config.table \ Targets : Preserved(h)

\* a transaction that changes its target and preserves an enabled monitor
\* that has a current mode
C5_Witness ==
  /\ config.state = "applied"
  /\ config.action.kind = "SetTransform"
  /\ \E t \in Targets : ~Preserved(t)
  /\ \E h \in DOMAIN config.table \ Targets :
       config.table[h].enabled /\ config.table[h].current_mode # None

\* the first mode of the catalog that satisfies the test: its index, or 0
FirstWhere(modes, Test(_)) ==
  LET hits == {i \in 1..Len(modes) : Test(modes[i])}
  IN IF hits = {} THEN 0 ELSE CHOOSE i \in hits : \A j \in hits : i <= j

\* the mode of monitor m chosen by strict priority: the explicit triple's,
\* else the remembered last mode, else the preferred, else the first
ByPriority(m, mode) ==
  LET a == IF mode.some
             THEN FirstWhere(m.modes,
                             LAMBDA x : /\ x.resolution.width = mode.width
                                        /\ x.resolution.height = mode.height
                                        /\ x.refresh_rate = mode.refresh_rate)
             ELSE 0
      b == IF m.last_mode # None
             THEN FirstWhere(m.modes, LAMBDA x : x.mode_id = m.last_mode)
             ELSE 0
      c == FirstWhere(m.modes, LAMBDA x : x.preferred)
  IN IF a # 0 THEN a ELSE IF b # 0 THEN b ELSE IF c # 0 THEN c ELSE 1

\* a Toggle whose monitors, those of its name, are all disabled
ToggleOn ==
  /\ config.state = "applied"
  /\ config.action.kind = "Toggle"
  /\ \A h \in Targets : ~config.table[h].enabled

\* C6: a Toggle on a disabled monitor with a mode in its catalog enables it
\* with the mode of strict priority: explicit triple, remembered last mode,
\* preferred, first.
C6_StrictPriority ==
  ToggleOn =>
    \A h \in Targets :
      config.table[h].modes # << >> =>
        EnabledWith(h, config.table[h].modes[
                         ByPriority(config.table[h], config.action.mode)].mode_id)

\* C8: a Toggle with no explicit mode on a disabled monitor with no
\* remembered last mode and a mode in its catalog enables it with the first
\* preferred mode, or with the first mode when none is preferred.
C8_PreferredElseFirst ==
  (ToggleOn /\ ~config.action.mode.some) =>
    \A h \in Targets :
      LET m == config.table[h]
          preferred == {i \in 1..Len(m.modes) : m.modes[i].preferred}
      IN (m.last_mode = None /\ m.modes # << >>) =>
           /\ preferred = {} => EnabledWith(h, m.modes[1].mode_id)
           /\ preferred # {} =>
                \E i \in preferred :
                  /\ \A j \in preferred : i <= j
                  /\ EnabledWith(h, m.modes[i].mode_id)

\* such a Toggle on a monitor whose second mode is its first preferred one
C8_Witness ==
  /\ ToggleOn
  /\ ~config.action.mode.some
  /\ \E h \in Targets :
       LET m == config.table[h]
       IN /\ m.last_mode = None
          /\ Len(m.modes) = 2
          /\ ~m.modes[1].preferred
          /\ m.modes[2].preferred
          /\ EnabledWith(h, m.modes[2].mode_id)

\* the catalog of monitor m has the mode the action asks for
Offers(m, mode) ==
  \E i \in 1..Len(m.modes) :
    /\ m.modes[i].resolution.width = mode.width
    /\ m.modes[i].resolution.height = mode.height
    /\ m.modes[i].refresh_rate = mode.refresh_rate

\* C9: a SwitchMode whose triple no catalog of its target has sends
\* ActionFailed of kind SwitchMode and builds a transaction of every
\* monitor's mirrored state, the target's included.
C9_SwitchModeNoMatch ==
  (/\ config.state = "applied"
   /\ config.action.kind = "SwitchMode"
   /\ Targets # {}
   /\ \A t \in Targets : ~Offers(config.table[t], config.action.mode)) =>
    /\ Cardinality(Failures("SwitchMode")) = Cardinality(Targets)
    /\ \A h \in DOMAIN config.table : Preserved(h)

\* such a SwitchMode on an enabled monitor with a catalog, beside another
\* monitor
C9_Witness ==
  /\ config.state = "applied"
  /\ config.action.kind = "SwitchMode"
  /\ Failures("SwitchMode") # {}
  /\ \E t \in Targets :
       /\ config.table[t].enabled
       /\ Len(config.table[t].modes) = 2
       /\ ~Offers(config.table[t], config.action.mode)
  /\ DOMAIN config.table \ Targets # {}

\* a scale that is zero, negative, NaN or infinite
InvalidScale(scale) ==
  \/ scale \in {NaN, PosInf, NegInf}
  \/ scale <= 0

\* C10: a SetScale with an invalid scale sends exactly one ActionFailed, of
\* kind SetScale, and submits a transaction of every monitor's mirrored
\* state, whatever monitor it names.
C10_InvalidScale ==
  (/\ pc = "wait_dispatch"
   /\ config.action.kind = "SetScale"
   /\ InvalidScale(config.action.scale)) =>
    /\ Cardinality(Positions(Emitted, {"ActionFailed"})) = 1
    /\ Cardinality(Failures("SetScale")) = 1
    /\ config.state = "applied"
    /\ \A h \in DOMAIN config.table : Preserved(h)

\* a SetScale of zero on an enabled monitor, beside a disabled one
C10_Witness ==
  /\ config.state = "applied"
  /\ config.action.kind = "SetScale"
  /\ config.action.scale = 0
  /\ Failures("SetScale") # {}
  /\ \E t \in Targets : config.table[t].enabled
  /\ \E h \in DOMAIN config.table \ Targets : ~config.table[h].enabled

\* the configuration is for a Toggle with no explicit mode of the name the
\* Toggle before it had, and monitor h of that name was enabled with a
\* current mode when the first was handled and is still in the table
OffThenToggle(h) ==
  /\ config.state = "applied"
  /\ config.action.kind = "Toggle"
  /\ ~config.action.mode.some
  /\ config.prev.state # "none"
  /\ config.prev.action.kind = "Toggle"
  /\ config.prev.action.name = config.action.name
  /\ h \in DOMAIN config.prev.table
  /\ h \in DOMAIN config.table
  /\ config.prev.table[h].name = config.action.name
  /\ config.prev.table[h].enabled
  /\ config.prev.table[h].current_mode # None
  /\ FindModeById(config.table[h].modes, config.prev.table[h].current_mode) # 0

\* C7 as the specification states it: a Toggle of an enabled monitor with
\* current mode M followed by a Toggle with no explicit mode builds, for
\* the second, a transaction that enables the monitor with M, whatever the
\* compositor sent between them.
C7_OffThenOn ==
  \A h \in DOMAIN config.table :
    OffThenToggle(h) => EnabledWith(h, config.prev.table[h].current_mode)

\* C7: a Toggle of an enabled monitor with current mode M followed by a
\* Toggle with no explicit mode builds, for the second, a transaction that
\* enables the monitor with M if the monitor table shows it disabled when
\* the second is handled, and one that disables it again if the table
\* still shows it enabled.
C7_OffThenOnWhenSeenOff ==
  \A h \in DOMAIN config.table :
    OffThenToggle(h) =>
      /\ ~config.table[h].enabled =>
           EnabledWith(h, config.prev.table[h].current_mode)
      /\ config.table[h].enabled =>
           /\ CountFor(h) = 1
           /\ \A r \in RequestsFor(h) : r.req = "disable"

\* the second Toggle re-enables the monitor with the mode it had, which is
\* not its preferred one
C7_Witness ==
  \E h \in DOMAIN config.table :
    /\ OffThenToggle(h)
    /\ ~config.table[h].enabled
    /\ FindPreferred(config.table[h].modes) # 0
    /\ config.table[h].modes[FindPreferred(config.table[h].modes)].mode_id
         # config.prev.table[h].current_mode
    /\ EnabledWith(h, config.prev.table[h].current_mode)

\* C11: a SetTransform, or a SetScale with a valid scale, sends for each
\* disabled monitor of its name one ActionFailed of its own kind whose
\* reason names the monitor, and the transaction holds that monitor's
\* disable request, not an enable.
C11_DisabledTarget ==
  (/\ pc = "wait_dispatch"
   /\ \/ config.action.kind = "SetTransform"
      \/ /\ config.action.kind = "SetScale"
         /\ ~InvalidScale(config.action.scale)) =>
    LET off == {t \in Targets : ~config.table[t].enabled}
    IN /\ Positions(Emitted, {"ActionFailed"}) = Failures(config.action.kind)
       /\ Cardinality(Failures(config.action.kind)) = Cardinality(off)
       /\ \A i \in Failures(config.action.kind) :
            Emitted[i].ev.reason.name = config.action.name
       /\ \A t \in off :
            /\ CountFor(t) = 1
            /\ \A r \in RequestsFor(t) : r.req = "disable"

\* a SetTransform and a disabled monitor of its name, beside an enabled
\* monitor
C11_Witness ==
  /\ pc = "wait_dispatch"
  /\ config.action.kind = "SetTransform"
  /\ config.action.name = "DP-1"
  /\ Failures("SetTransform") # {}
  /\ \E t \in Targets : ~config.table[t].enabled
  /\ \E h \in DOMAIN config.table \ Targets : config.table[h].enabled

\* ------------------------------------------------------------------------
\* Errors
\* ------------------------------------------------------------------------

\* the last flush_changed of wait_for_result and the rest of handle_action
\* after a Failed or Cancelled
RejectedStep ==
  /\ pc = "wait_flush"
  /\ config_result \in {"Failed", "Cancelled"}
  /\ pc' # pc

\* the Debug form of the error wait_for_result returns for a result
RejectionText(result) ==
  IF result = "Failed"
    THEN "EventQueueError(\"compositor rejected the configuration\")"
    ELSE "EventQueueError(\"configuration cancelled (serial outdated)\")"

\* the ActionFailed events a step sends
SentFailures == {i \in DOMAIN Sent : Sent[i].ev.type = "ActionFailed"}

\* C12: when the compositor answers a transaction with Failed or Cancelled,
\* wait_for_result returns EventQueueError with the fixed text of that
\* answer, the engine sends one ActionFailed of kind ConfigApply carrying
\* it, and run does not return: it starts its next iteration with the
\* actions still queued.
C12_RejectionReported ==
  [][RejectedStep =>
       /\ Cardinality(SentFailures) = 1
       /\ \A i \in SentFailures :
            /\ Sent[i].ev.action = "ConfigApply"
            /\ Sent[i].ev.reason.text = RejectionText(config_result)
       /\ pc' = "tick"
       /\ error' = NoError
       /\ controller' = controller
       /\ config'.state = "destroyed"]_vars

\* a second action is being handled after the first was cancelled and
\* reported
C12_Witness ==
  /\ pc = "wait_dispatch"
  /\ config.prev.state = "destroyed"
  /\ \E i \in Positions(Emitted, {"ActionFailed"}) :
       /\ Emitted[i].ev.action = "ConfigApply"
       /\ Emitted[i].ev.reason.text = RejectionText("Cancelled")

\* C13 as stated: the error of a rejected or cancelled transaction leaves
\* run and ends it.
C13_RejectionTerminates ==
  [][RejectedStep => pc' = "exit"]_vars

\* C13: the error of a rejected or cancelled transaction goes no further
\* than handle_action, which reports it as ActionFailed of kind ConfigApply;
\* run goes on to its next iteration, and the error run returns when it does
\* return is never that one.
C13_RejectionContained ==
  /\ [][RejectedStep =>
          /\ pc' = "tick"
          /\ error' = NoError
          /\ \E i \in SentFailures :
               Sent[i].ev.reason.text = RejectionText(config_result)]_vars
  /\ [](pc = "exit" =>
          /\ error.variant = "EventQueueError"
          /\ error.text \notin {"compositor rejected the configuration",
                                "configuration cancelled (serial outdated)"})

\* a rejection has been reported and run is in its next iteration
C13_Witness ==
  /\ pc = "dispatch"
  /\ config.state = "destroyed"
  /\ error = NoError
  /\ \E i \in Positions(Emitted, {"ActionFailed"}) :
       Emitted[i].ev.reason.text = RejectionText("Failed")

\* try_recv has an action and the engine processes it
ProcessStep ==
  /\ pc = "try_recv"
  /\ controller # << >>
  /\ pc' # pc

\* the two errors handle_action returns before it creates a configuration
Unready ==
  {[variant |-> "EventQueueError", text |-> "no serial available"],
   [variant |-> "EventQueueError", text |-> "no manager available"]}

HardFailure ==
  \/ pc = "tick" /\ pc' \notin {"tick", "dispatch"}
  \/ pc = "dispatch" /\ pc' \notin {"dispatch", "flush_changed"}
  \/ pc = "wait_dispatch" /\ pc' \notin {"wait_dispatch", "wait_flush"}

\* C15: every failure of a flush or a dispatch, be it the flush or the
\* dispatch of an iteration of run or the blocking dispatch of
\* wait_for_result, ends run, which returns EventQueueError.
C15_HardFailureAborts ==
  [][HardFailure =>
       /\ pc' = "exit"
       /\ error'.variant = "EventQueueError"]_vars

\* ------------------------------------------------------------------------
\* Removal
\* ------------------------------------------------------------------------

\* the heads a step takes out of the monitor table while run goes on
Finishing == {h \in DOMAIN monitors : h \notin DOMAIN monitors' /\ pc' # "exit"}

\* C16: Finished for a head of the table (a head listed in InitialState
\* among them) sends exactly one Removed, with the head's identifier and
\* the name stored for it; no second Removed and no Changed with that
\* identifier follows, whether or not the monitor was dirty.
C16_RemovedOnce ==
  /\ [][\A h \in Finishing :
          /\ Len(Sent) = 1
          /\ Sent[1].ev = Removed(h, monitors[h].name)]_vars
  /\ [](\A j \in Positions(Emitted, {"Removed"}) :
          /\ Emitted[j].ev.id \notin DOMAIN monitors
          /\ \A k \in Positions(Emitted, {"Removed"}) :
               Emitted[k].ev.id = Emitted[j].ev.id => k = j
          /\ \A k \in Positions(Emitted, {"Changed"}) :
               Emitted[k].ev.monitor.head_id = Emitted[j].ev.id => k < j)

\* the one head, listed in InitialState under its name, had a field event
\* dispatched and then Finished, with no flush_changed between; Removed was
\* sent and a flush_changed has run since
C16_Witness ==
  /\ pc = "try_recv"
  /\ nextHead = 2
  /\ nextMode = 1
  /\ serial = 1
  /\ config = NoConfig
  /\ Positions(Emitted, {"Changed"}) = {}
  /\ \E i \in Positions(Emitted, {"InitialState"}) :
       \E j \in Positions(Emitted, {"Removed"}) :
         /\ DOMAIN Emitted[i].ev.monitors # {}
         /\ Emitted[j].ev.name = "DP-1"
         /\ Emitted[j].first >= Emitted[i].last + 2

\* ------------------------------------------------------------------------
\* Soft failures
\* ------------------------------------------------------------------------

\* the disabled targets of a Toggle that have no mode at all
Modeless == {t \in Targets : config.table[t].modes = << >>}

\* C17: a Toggle on a disabled monitor with an empty catalog sends
\* ActionFailed of kind Toggle naming it and puts no request for it, enable
\* or disable, in the transaction; every other monitor is preserved and the
\* transaction is applied.  Whatever action sends an ActionFailed, every
\* monitor that is not its target is in the applied transaction.
C17_NoModeAtAll ==
  /\ ToggleOn =>
       /\ \A t \in Modeless : CountFor(t) = 0
       /\ Cardinality(Failures("Toggle")) = Cardinality(Modeless)
       /\ \A i \in Failures("Toggle") :
            Emitted[i].ev.reason.name = config.action.name
  /\ (pc = "wait_dispatch" /\ Positions(Emitted, {"ActionFailed"}) # {}) =>
       /\ config.state = "applied"
       /\ \A h \in DOMAIN config.table \ Targets : Preserved(h)

\* a Toggle on a disabled monitor with no modes, beside an enabled monitor
\* of another name
C17_Witness ==
  /\ pc = "wait_dispatch"
  /\ ToggleOn
  /\ Modeless # {}
  /\ Failures("Toggle") # {}
  /\ \E h \in DOMAIN config.table \ Targets :
       config.table[h].enabled /\ Preserved(h)

\* ------------------------------------------------------------------------
\* The inward channel
\* ------------------------------------------------------------------------

\* the host's send: the channel grows by one action at its end
Enqueued == \E a \in {Toggle(n, NoMode) : n \in Names} :
              controller' = Append(controller, a)

\* try_recv returns the oldest action and handle_action applies a
\* configuration for it, none being applied already
Dequeued ==
  /\ pc = "try_recv"
  /\ controller # << >>
  /\ controller' = Tail(controller)
  /\ config.state # "applied"
  /\ config'.state = "applied"
  /\ config'.action = Head(controller)
  /\ pc' = "wait_dispatch"

\* C18: the engine takes at most one action out of the inward channel per
\* iteration of run, the oldest, without waiting for one; it takes none
\* while a configuration awaits its result, so at most one configuration is
\* applied and unanswered at a time.
C18_OneActionPerTick ==
  /\ [][controller' # controller =>
          \/ pc' = pc /\ Enqueued
          \/ Dequeued
          \/ pc' = "exit" /\ controller' = << >>]_vars
  /\ [][pc' # pc =>
          /\ pc' = "try_recv" => pc = "flush_changed"
          /\ pc' = "flush_changed" => pc = "dispatch"
          /\ pc' = "dispatch" => pc = "tick"
          /\ pc = "try_recv" => pc' \in {"tick", "wait_dispatch", "exit"}]_vars
  /\ []((pc = "try_recv" /\ controller = << >> /\ pending = << >>) =>
          ENABLED TryRecvEmpty)
  /\ [](config.state = "applied" =>
          /\ pc \in {"wait_dispatch", "wait_flush"}
          /\ config.prev.state # "applied")

\* a configuration awaits its result while a second action waits in the
\* channel
C18_Witness ==
  /\ config.state = "applied"
  /\ pc = "wait_flush"
  /\ Len(controller) = 1
  /\ controller[1].name # config.action.name

\* ------------------------------------------------------------------------
\* The outward channel
\* ------------------------------------------------------------------------

\* log a begins log b
Prefix(a, b) == Len(a) <= Len(b) /\ SubSeq(b, 1, Len(a)) = a

\* the heads of the Changed events a step sends, in order
SentChanged == [i \in DOMAIN Sent |-> Sent[i].ev.monitor.head_id]

\* C19: with the outward channel full the engine stays in the send until
\* the host has taken an event out, and no event is dropped or sent out of
\* turn: the channel never holds more than its capacity, what has been put
\* in it stays in front of what is put in later, every event a handler or
\* flush_changed sends is in the log in the order of the sends, and the
\* engine does nothing else while a send is blocked.
C19_Backpressure ==
  /\ [](/\ Len(sent) - recvd <= EventCap
        /\ recvd <= Len(sent))
  /\ [][/\ Prefix(sent, sent')
        /\ Prefix(Emitted, Emitted')
        /\ recvd' >= recvd]_vars
  /\ [][(pending = << >> /\ pending' # << >>) =>
          Len(sent') - recvd = EventCap]_vars
  /\ [][pending # << >> =>
          /\ Emitted' = Emitted
          /\ pc' = pc /\ monitors' = monitors /\ nEvents' = nEvents
          /\ sent' # sent =>
               /\ Len(sent) - recvd < EventCap
               /\ sent' = Append(sent, Head(pending))]_vars
  /\ [][(pc = "flush_changed" /\ pc' = "try_recv") =>
          /\ Len(Sent) = Cardinality(DirtyHeads)
          /\ \A i \in DOMAIN Sent : Sent[i].ev.type = "Changed"
          /\ {SentChanged[i] : i \in DOMAIN Sent} = DirtyHeads]_vars
  /\ [][(pc = "dispatch" /\ DOMAIN monitors' # DOMAIN monitors) =>
          /\ Len(Sent) = 1
          /\ Sent[1].ev.type = "Removed"]_vars

\* the engine is blocked in the send of the second Changed of a flush, the
\* channel full, after the host has taken an event out
C19_Witness ==
  /\ pending # << >>
  /\ pending[1].ev.type = "Changed"
  /\ Len(sent) - recvd = EventCap
  /\ recvd >= 1
  /\ sent[Len(sent)].ev.type = "Changed"
  /\ sent[Len(sent)].ev.monitor.head_id # pending[1].ev.monitor.head_id

\* ------------------------------------------------------------------------
\* The wait
\* ------------------------------------------------------------------------

\* the engine is in wait_for_result
Waiting == pc \in {"wait_dispatch", "wait_flush"}

\* C20: once a configuration is applied the engine leaves wait_for_result
\* only after Succeeded, Failed or Cancelled has been dispatched, or on a
\* failed dispatch; it takes no action from the channel meanwhile; each
\* round of the wait reports the monitors that head events have changed;
\* and once one of the three results is in, the wait ends.
C20_WaitForResult ==
  /\ [][(Waiting /\ ~Waiting') =>
          \/ /\ pc = "wait_flush"
             /\ config_result \in {"Succeeded", "Failed", "Cancelled"}
             /\ config.answered
          \/ /\ pc = "wait_dispatch"
             /\ HardFailure]_vars
  /\ [][(Waiting /\ Waiting') =>
          /\ controller' = controller
          /\ config'.state = "applied"
          /\ config'.action = config.action]_vars
  /\ [][(pc = "wait_flush" /\ pc' # pc) =>
          /\ {Sent[i].ev.monitor.head_id :
                i \in Positions(Sent, {"Changed"})} = DirtyHeads
          /\ \A h \in DOMAIN monitors' : ~monitors'[h].changed
          /\ \A i \in Positions(Sent, {"Changed"}) :
               Sent[i].ev.monitor =
                 [monitors[Sent[i].ev.monitor.head_id] EXCEPT
                    !.changed = FALSE]]_vars
  /\ (Waiting /\ config_result # "Idle") ~> ~Waiting

\* in the wait, unanswered, a head event has been dispatched and reported
\* as Changed
C20_Witness ==
  /\ pc = "wait_dispatch"
  /\ config.state = "applied"
  /\ ~config.answered
  /\ config_result = "Idle"
  /\ \E i \in Positions(Emitted, {"Changed"}) :
       Emitted[i].first > MaxEvents - WaitEvents

\* ------------------------------------------------------------------------
\* Transforms
\* ------------------------------------------------------------------------

\* the transform the request for head h was built from: the action's for
\* its target, the mirrored one for another head
Asked(h) ==
  IF config.table[h].name = config.action.name
    THEN config.action.transform
    ELSE config.table[h].transform

\* C21: each of the eight transforms comes back from its wire value
\* unchanged, no two transforms have one wire value, and a wire value
\* outside the eight gives Normal.
C21_TransformRoundTrip ==
  /\ [](\A v \in WlTransform : from_wayland(to_wayland(v)) = v)
  /\ [](config.state = "applied" =>
          \A r1, r2 \in EnableRequests :
            r1.transform = r2.transform => Asked(r1.head) = Asked(r2.head))
  /\ [][\A r \in EnableRequests :
          (config.state = "applied" /\ HeadTransform(r.head, r.transform)) =>
            monitors'[r.head].transform = Asked(r.head)]_vars
  /\ [][\A h \in DOMAIN monitors : \A w \in UnknownWire :
          HeadTransform(h, w) => monitors'[h].transform = "Normal"]_vars

\* "DP-1", Normal, was asked to be Flipped270 and reported so; "HDMI-A-1",
\* Rotate90, was reported with an unknown wire value
C21_Witness ==
  /\ config.state = "applied"
  /\ config.table[1].transform = "Normal"
  /\ config.action.transform = "Flipped270"
  /\ monitors[1].transform = "Flipped270"
  /\ monitors[1].changed
  /\ config.table[2].transform = "Rotate90"
  /\ monitors[2].transform = "Normal"
  /\ monitors[2].changed

\* ------------------------------------------------------------------------
\* Scale and transform
\* ------------------------------------------------------------------------

\* the wire value of each transform
WireOf ==
  [t \in WlTransform |->
     CASE t = "Normal" -> 0 [] t = "Rotate90" -> 1 [] t = "Rotate180" -> 2
       [] t = "Rotate270" -> 3 [] t = "Flipped" -> 4 [] t = "Flipped90" -> 5
       [] t = "Flipped180" -> 6 [] t = "Flipped270" -> 7]

\* the request the action asks for an enabled target t
Adjusted(t) ==
  LET m == config.table[t]
  IN [req |-> "enable", head |-> t, mode |-> m.current_mode,
      x |-> m.position.x, y |-> m.position.y,
      transform |-> IF config.action.kind = "SetTransform"
                      THEN WireOf[config.action.transform]
                      ELSE WireOf[m.transform],
      scale |-> IF config.action.kind = "SetScale"
                  THEN config.action.scale ELSE m.scale]

\* C22: a SetTransform, or a SetScale with a valid scale, puts one enable
\* request for each enabled monitor of its name in the transaction, with
\* the new transform (the new scale) and the monitor's mirrored current
\* mode, position and scale (transform); building the transaction leaves
\* the monitor table as it was.
C22_AdjustedTarget ==
  (/\ pc = "wait_dispatch"
   /\ \/ config.action.kind = "SetTransform"
      \/ /\ config.action.kind = "SetScale"
         /\ ~InvalidScale(config.action.scale)) =>
    /\ \A t \in Targets :
         config.table[t].enabled =>
           /\ CountFor(t) = 1
           /\ RequestsFor(t) = {Adjusted(t)}
    /\ monitors = config.table

\* a SetScale of 2 on "DP-1", enabled at scale 1 with a current mode
C22_Witness ==
  /\ pc = "wait_dispatch"
  /\ config.action = SetScale("DP-1", 2)
  /\ \E t \in Targets :
       /\ config.table[t].enabled
       /\ config.table[t].scale = 1
       /\ config.table[t].current_mode # None
       /\ \A r \in RequestsFor(t) : r.scale = 2 /\ r.mode # None

\* ------------------------------------------------------------------------
\* The dirty flag
\* ------------------------------------------------------------------------

\* what the host reads in a monitor, field event by field event
Reading(m) ==
  [Name |-> m.name, Description |-> m.description, Make |-> m.make,
   Model |-> m.model, SerialNumber |-> m.serial_number,
   Enabled |-> m.enabled, CurrentMode |-> m.current_mode,
   Position |-> <<m.position.x, m.position.y>>, Scale |-> m.scale,
   Transform |-> m.transform]

\* what a field event says
Received(ev) ==
  CASE ev.field \in {"Name", "Description", "Make", "Model", "SerialNumber"} ->
         ev.str
    [] ev.field = "Enabled" -> ev.a # 0
    [] ev.field \in {"CurrentMode", "Scale"} -> ev.a
    [] ev.field = "Position" -> <<ev.a, ev.b>>
    [] ev.field = "Transform" ->
         IF \E t \in WlTransform : WireOf[t] = ev.a
           THEN CHOOSE t \in WlTransform : WireOf[t] = ev.a
           ELSE "Normal"

Catalogs(ms) == [h \in DOMAIN ms |-> ms[h].modes]

\* C24: a mode announced on a head, and a Size, Refresh or Preferred of a
\* mode, set no dirty flag and send no event, before the first Done or
\* after it; when only such events are dispatched, flush_changed sends no
\* Changed although the catalogs have changed.
C24_ModesSilent ==
  /\ [][(HeadMode \/ ModeFieldAny) =>
          /\ Sent = << >>
          /\ DOMAIN monitors' = DOMAIN monitors
          /\ \A h \in DOMAIN monitors :
               monitors'[h].changed = monitors[h].changed]_vars
  /\ [](\A h \in DOMAIN monitors : ~monitors[h].changed)
  /\ [][(pc = "flush_changed" /\ pc' # pc) => Sent = << >>]_vars
  /\ [](Positions(Emitted, {"Changed"}) = {})

\* after InitialState listed "DP-1" without modes, two modes were announced
\* and one given 2560x1440 at 74 Hz, preferred; flush_changed has run
C24_Witness ==
  /\ initialized
  /\ pc = "try_recv"
  /\ Len(monitors[1].modes) = 2
  /\ \E i \in 1..2 :
       /\ monitors[1].modes[i].refresh_rate = 74
       /\ monitors[1].modes[i].resolution.width = 2560
  /\ Emitted[1].ev.type = "InitialState"
  /\ Catalogs(Emitted[1].ev.monitors) # Catalogs(monitors)
  /\ Len(Emitted) = 1

\* ------------------------------------------------------------------------
\* The result marker
\* ------------------------------------------------------------------------

Results == {"Succeeded", "Failed", "Cancelled"}

\* a result event of the applied configuration is dispatched
ResultStep ==
  /\ pc \in {"dispatch", "wait_dispatch"}
  /\ pc' = pc
  /\ config.state = "applied"
  /\ nEvents' = nEvents + 1
  /\ config_result' \in Results

\* wait_for_result begins
WaitStarts ==
  /\ pc = "try_recv"
  /\ pc' = "wait_dispatch"
  /\ config_result' = "Idle"

\* C25 as stated: config_result takes a value other than Idle only from
\* Idle, on a result event, and goes back to Idle only when a wait begins.
C25_OnlyFromIdle ==
  [][config_result' # config_result =>
       \/ ResultStep /\ config_result = "Idle"
       \/ WaitStarts]_vars

\* C25: config_result leaves Idle only on a Succeeded, Failed or Cancelled
\* event, takes the value of every such event dispatched, whatever it held
\* before, and goes back to Idle only when a wait begins.
C25_ResultMarker ==
  /\ [][config_result' # config_result => ResultStep \/ WaitStarts]_vars
  /\ [][(config_result = "Idle" /\ config_result' # "Idle") =>
          ResultStep]_vars
  /\ [][(config_result # "Idle" /\ config_result' = "Idle") =>
          WaitStarts]_vars

\* a second wait has begun, the marker Idle again, after the first ended
\* with Failed or Cancelled
C25_Witness ==
  /\ pc = "wait_dispatch"
  /\ config_result = "Idle"
  /\ config.state = "applied"
  /\ config.prev.state = "destroyed"
  /\ Failures("ConfigApply") # {}

\* ------------------------------------------------------------------------
\* The configuration object
\* ------------------------------------------------------------------------

\* create_configuration(serial) and apply for the action try_recv returned
Created ==
  /\ pc = "try_recv"
  /\ controller # << >>
  /\ controller' = Tail(controller)
  /\ serial # None
  /\ config.state \in {"none", "destroyed"}
  /\ config'.state = "applied"
  /\ config'.serial = serial
  /\ config'.action = Head(controller)
  /\ ~config'.answered

\* the compositor's answer to the applied configuration
Answered ==
  /\ config.state = "applied"
  /\ pc' = pc
  /\ config' = [config EXCEPT !.answered = TRUE]

\* config.destroy() as handle_action returns
Destroyed ==
  /\ Waiting
  /\ ~Waiting'
  /\ config.state = "applied"
  /\ config' = [config EXCEPT !.state = "destroyed"]

\* C26: an action that passes the test of serial and manager gets one
\* configuration, created with the serial of the latest Done and applied
\* once; the configuration is destroyed once, when the wait ends, whatever
\* ended it; nothing puts the action back in the channel or applies a
\* configuration for it again.
C26_OneConfiguration ==
  /\ [][config' # config => Created \/ Answered \/ Destroyed]_vars
  /\ [][(Waiting /\ ~Waiting') =>
          /\ Destroyed
          /\ controller' = controller
          /\ pc' = "tick"]_vars
  /\ [][serial' # serial =>
          \/ serial' = serial + 1 /\ nEvents' = nEvents + 1 /\ config' = config
          \/ pc' = "exit"]_vars
  /\ [](config.state = "applied" <=> Waiting)
  /\ [](config.state # "none" => config.serial \in 1..serial \/ pc = "exit")

\* the configuration of an action taken after the second Done was created
\* with serial 2 and destroyed after a dispatch failed in the wait
C26_Witness ==
  /\ config.state = "destroyed"
  /\ config.serial = 2
  /\ serial = 2
  /\ ~config.answered
  /\ pc = "dispatch"
  /\ \E i \in Failures("ConfigApply") :
       Emitted[i].ev.reason.text = "EventQueueError(\"dispatch failed\")"

\* ------------------------------------------------------------------------
\* The mode index
\* ------------------------------------------------------------------------

\* the mode ids of a monitor's catalog
ModeIds(m) == {m.modes[i].mode_id : i \in 1..Len(m.modes)}

\* C27: with head and mode ids never reused, every entry of mode_monitor
\* leads from a mode id to a head of the table whose catalog holds that
\* mode, and every mode of a catalog has its entry, leading to its monitor;
\* Finished takes the monitor and all its entries out in one step and
\* leaves the others.
C27_ModeIndex ==
  /\ [](\A m \in DOMAIN mode_monitor :
          /\ mode_monitor[m] \in DOMAIN monitors
          /\ m \in ModeIds(monitors[mode_monitor[m]]))
  /\ [](\A h \in DOMAIN monitors : \A m \in ModeIds(monitors[h]) :
          /\ m \in DOMAIN mode_monitor
          /\ mode_monitor[m] = h)
  /\ [][\A h \in Finishing :
          /\ DOMAIN mode_monitor' =
               {m \in DOMAIN mode_monitor : mode_monitor[m] # h}
          /\ \A m \in DOMAIN mode_monitor' : mode_monitor'[m] = mode_monitor[m]
          /\ DOMAIN monitors' = DOMAIN monitors \ {h}]_vars

\* two heads have announced a mode each and the first has finished
C27_Witness ==
  /\ DOMAIN monitors = {2}
  /\ nextMode = 3
  /\ Cardinality(DOMAIN mode_monitor) = 1
  /\ \E m \in DOMAIN mode_monitor : mode_monitor[m] = 2
  /\ Positions(Emitted, {"Removed"}) # {}

\* ------------------------------------------------------------------------
\* A name no monitor has
\* ------------------------------------------------------------------------

\* C28: a Toggle, a SwitchMode, a SetTransform or a SetScale with a valid
\* scale whose name no monitor of the table has sends no ActionFailed, and
\* a configuration holding every monitor's mirrored state is created,
\* applied and waited on.
C28_NoSuchMonitor ==
  (/\ pc = "wait_dispatch"
   /\ Targets = {}
   /\ \/ config.action.kind \in {"Toggle", "SwitchMode", "SetTransform"}
      \/ /\ config.action.kind = "SetScale"
         /\ ~InvalidScale(config.action.scale)) =>
    /\ Positions(Emitted, {"ActionFailed"}) = {}
    /\ config.state = "applied"
    /\ config_result = "Idle"
    /\ \A h \in DOMAIN config.table : Preserved(h)
    /\ BagCardinality(config.reqs) = Cardinality(DOMAIN config.table)

\* a SwitchMode for a name no monitor has, with an enabled and a disabled
\* monitor in the table
C28_Witness ==
  /\ pc = "wait_dispatch"
  /\ config.action.kind = "SwitchMode"
  /\ config.action.name = NoSuchName
  /\ Targets = {}
  /\ \E a, b \in DOMAIN config.table :
       config.table[a].enabled /\ ~config.table[b].enabled
  /\ Len(Emitted) = 1

\* ------------------------------------------------------------------------
\* Both channels full
\* ------------------------------------------------------------------------

\* the engine is in a send on the full outward channel
EngineBlocked ==
  /\ pending # << >>
  /\ Len(sent) - recvd = EventCap

\* the host is in a send on the full inward channel
HostBlocked ==
  /\ HostInSend
  /\ Len(controller) = ActionCap

\* C29: with a host that receives events and sends actions in one thread,
\* its sends blocking, the engine is never blocked in a send on the full
\* outward channel while the host is blocked in a send on the full inward
\* channel.
C29_NoMutualBlock ==
  ~(EngineBlocked /\ HostBlocked)

\* ------------------------------------------------------------------------
\* Heads that go before, and come after, the first Done
\* ------------------------------------------------------------------------

\* the Removed events of the stream that stand before an InitialState which
\* does not list their head
EarlyRemoved ==
  {j \in Positions(Emitted, {"Removed"}) :
     \E i \in Positions(Emitted, {"InitialState"}) :
       /\ j < i
       /\ Emitted[j].ev.id \notin DOMAIN Emitted[i].ev.monitors}

\* the Changed events of the stream for a head no InitialState lists
LateChanged ==
  {j \in Positions(Emitted, {"Changed"}) :
     \A i \in Positions(Emitted, {"InitialState"}) :
       Emitted[j].ev.monitor.head_id \notin DOMAIN Emitted[i].ev.monitors}

====
